---- MODULE Spec2Model ----
(***************************************************************************)
(* Verification model of the hermes-data-service job scraper:              *)
(*   - the retry / fallback orchestration (runJobScraper,                  *)
(*     EnhancedLinkedInScraper.scrapeJobsWithRetry) over the session       *)
(*     driver CustomLinkedInScraper and the SimpleLinkedInScraper fallback *)
(*   - the pagination loop of CustomLinkedInScraper.scrapeJobs             *)
(*   - batchScrapeJobs, the record validation / sanitization helpers and   *)
(*     the de-duplication of getScrapedJobsHandler.                        *)
(* Strings are sequences of characters; the absent value (undefined) is    *)
(* the one-element sequence Undefined.                                     *)
(***************************************************************************)
EXTENDS Integers, Sequences, FiniteSets, TLC

\* ------------------------------------------------------------------ bounds
\* largest configured maxRetries explored for createEnhancedScraper(config)
MaxBudget == 2
\* longest record list one successful driver scrape hands to the orchestrator
MaxRaw == 1
\* sessions that end on their own during one call
MaxDeaths == 1
\* browser launches that fail during one call
MaxLaunchFailures == 1

\* most result cards the page ever holds during one scrape
MaxDom == 2
\* largest params.limit explored
MaxLimit == 2

\* most requests in one batch
MaxRequests == 3
\* longest string explored as a field of a scraped record
MaxStrLen == 2
\* most records in a scraped list or a persisted snapshot of the jobs handler
MaxHandlerJobs == 3

\* most records in the listing whose descriptions are fetched
MaxListing == 3

\* largest attempt index whose retry delay is computed
MaxAttemptIndex == 12

\* most operations performed on one driver object
MaxOps == 4

\* scrapeJobs calls made on one driver object, one after the other
MaxScrapeCalls == 2

\* concurrent callers of initialize() on one driver object
MaxCallers == 2
\* initialize() calls made on one driver object
MaxInitCalls == 3

\* the limits of the URL-offset scrapes explored with every site behaviour
MaxUrlLimit == 3
\* the limit of the URL-offset scrape explored page after page
DeepLimit == 51

\* the cards of the longest result list explored (cards without an id only)
MaxDeepDom == 22

\* listing records each scrapeJobsWithDescriptions call fetches descriptions for
MaxFetches == 2

\* most records one of two concurrent get_and_upload requests scrapes
MaxSharedJobs == 2
\* most records persisted before the two requests arrive
MaxStored == 1

\* email accounts stored for one user
MaxAccounts == 3

\* ------------------------------------------------------- program constants
\* runBatchJobScraper: requestDelay: 3000
BatchRequestDelay == 3000
\* randomDelay(requestDelay, requestDelay + 2000)
BatchDelaySpread == 2000
\* const targetLimit = params.limit || 100
\* const maxScrollAttempts = 50 of slowScrollToLoadJobs
MaxSlowScrolls == 50

\* this.config.maxConcurrentRequests || 3
DefaultMaxConcurrent == 3

DefaultLimit == 100
\* const maxScrollAttempts = 20
MaxScrollAttempts == 20
\* loadMoreJobs: const scrollAttempts = 5
ScrollsPerLoad == 5
\* this.config.maxRetries || 3
DefaultMaxRetries == 3
\* runJobScraper: maxRetries: 2
OnceMaxRetries == 2
\* runJobScraper: limit: 100 is scaled down in the pagination model (see Limits)
\* calculateRetryDelay
BaseDelay == 1000
MaxDelay == 30000
\* fixed cooldown before re-initializing on retry
ReinitCooldown == 2000
\* randomDelay(5000, 10000) after a rate-limited failure
RateLimitMin == 5000
RateLimitMax == 10000
\* private context: BrowserContext | null = null
NoCtx == 0

\* ------------------------------------------------------------------ strings
Undefined == <<"undefined">>
NA == <<"N", "/", "A">>

IsString(s) == s # Undefined

\* JS truthiness of a string-or-undefined value
Truthy(s) == s # Undefined /\ Len(s) > 0

RECURSIVE TrimStart(_)
TrimStart(s) ==
  IF Len(s) > 0 /\ Head(s) = " " THEN TrimStart(Tail(s)) ELSE s

RECURSIVE TrimEnd(_)
TrimEnd(s) ==
  IF Len(s) > 0 /\ s[Len(s)] = " " THEN TrimEnd(SubSeq(s, 1, Len(s) - 1)) ELSE s

\* String.prototype.trim
Trim(s) == TrimEnd(TrimStart(s))

\* a || b
OrElse(a, b) == IF Truthy(a) THEN a ELSE b

\* a?.trim() || b
TrimOrElse(a, b) == IF a # Undefined /\ Truthy(Trim(a)) THEN Trim(a) ELSE b

\* ------------------------------------------------------------------ records
JobFields ==
  {"id", "title", "company", "companyLink", "companyImgLink", "location",
   "date", "link", "applyLink", "description", "salary", "jobType",
   "experienceLevel"}

\* isValidJobData(job)
isValidJobData(job) ==
  /\ Truthy(job.title)
  /\ Truthy(job.company)
  /\ Truthy(job.id)
  /\ Trim(job.title) # <<>>
  /\ Trim(job.company) # <<>>

\* a sanitization that defaults every field without trimming it first
sanitizeJobDataNoTrim(job) ==
  [f \in JobFields |-> IF f = "id" THEN job.id ELSE OrElse(job[f], NA)]

\* a?.trim() || b with a trim that removes one leading blank only
TrimOneOrElse(a, b) ==
  LET t == IF a # Undefined /\ Len(a) > 0 /\ Head(a) = " " THEN Tail(a) ELSE a
  IN  IF Truthy(t) THEN t ELSE b

\* a sanitization whose trim removes one leading blank only
sanitizeJobDataTrimOne(job) ==
  [f \in JobFields |->
     IF f = "id" THEN job.id
     ELSE IF f \in {"link", "companyLink", "companyImgLink", "applyLink"}
       THEN OrElse(job[f], NA)
     ELSE TrimOneOrElse(job[f], NA)]

\* sanitizeJobData(job)
sanitizeJobData(job) ==
  [job EXCEPT
     !.title = TrimOrElse(job.title, NA),
     !.company = TrimOrElse(job.company, NA),
     !.location = TrimOrElse(job.location, NA),
     !.date = TrimOrElse(job.date, NA),
     !.link = OrElse(job.link, NA),
     !.companyLink = OrElse(job.companyLink, NA),
     !.companyImgLink = OrElse(job.companyImgLink, NA),
     !.applyLink = OrElse(job.applyLink, NA),
     !.description = TrimOrElse(job.description, NA),
     !.salary = TrimOrElse(job.salary, NA),
     !.jobType = TrimOrElse(job.jobType, NA),
     !.experienceLevel = TrimOrElse(job.experienceLevel, NA)]

\* jobs.filter(isValidJobData).map(sanitizeJobData)
ValidateAndSanitize(jobs) ==
  LET v == SelectSeq(jobs, isValidJobData)
  IN  [i \in 1..Len(v) |-> sanitizeJobData(v[i])]

\* A record as extractJobsFromPage builds it from one result card
CardJob(id, title, company) ==
  [id |-> id, title |-> Trim(title), company |-> Trim(company),
   companyLink |-> <<>>, companyImgLink |-> <<>>, location |-> <<>>,
   date |-> <<>>, link |-> <<"h">> \o id, applyLink |-> <<>>,
   description |-> <<>>, salary |-> <<>>, jobType |-> <<>>,
   experienceLevel |-> <<>>]

\* the legacy shape runJobScraper maps every record to
LegacyJob(job) ==
  [location |-> job.location, id |-> job.id, title |-> job.title,
   company |-> OrElse(job.company, NA),
   companyLink |-> OrElse(job.companyLink, NA),
   companyImgLink |-> OrElse(job.companyImgLink, NA),
   place |-> job.location, date |-> job.date, link |-> job.link,
   applyLink |-> OrElse(job.applyLink, NA)]

\* the legacy shape of a fallback (SimpleJobData) record
LegacyFallbackJob(job) ==
  [location |-> job.location, id |-> job.id, title |-> job.title,
   company |-> OrElse(job.company, NA),
   companyLink |-> NA, companyImgLink |-> NA,
   place |-> job.location, date |-> job.date, link |-> job.link,
   applyLink |-> NA]

\* jobs.map((job) => ({...})) of the primary path
LegacyJobs(jobs) == [i \in 1..Len(jobs) |-> LegacyJob(jobs[i])]

\* simpleJobs.map((job) => ({...})) of the fallback path
LegacyFallbackJobs(jobs) == [i \in 1..Len(jobs) |-> LegacyFallbackJob(jobs[i])]

\* ------------------------------------------------------------------- errors
\* An error is its name and the set of signature substrings its message holds.
Err(n, m) == [name |-> n, msg |-> m, count |-> 0]

Includes(e, tok) == tok \in e.msg

\* isRateLimited(error)
isRateLimited(e) ==
  \/ Includes(e, "429")
  \/ Includes(e, "rate limit")
  \/ Includes(e, "too many requests")

\* the message / name test of shouldRetry
RetryableSignature(e) ==
  \/ isRateLimited(e)
  \/ Includes(e, "timeout")
  \/ Includes(e, "network")
  \/ Includes(e, "502")
  \/ Includes(e, "503")
  \/ Includes(e, "Target page")
  \/ Includes(e, "browser")
  \/ Includes(e, "context has been closed")
  \/ Includes(e, "TargetClosedError")
  \/ Includes(e, "Protocol error")
  \/ Includes(e, "Connection closed")
  \/ e.name = "TargetClosedError"
  \/ e.name = "ProtocolError"

\* shouldRetry with the budget test one attempt early
shouldRetryOffByOne(e, att, maxR) ==
  IF att + 1 >= maxR THEN FALSE ELSE RetryableSignature(e)

\* shouldRetry without the signature test
shouldRetryAnyError(e, att, maxR) == att < maxR

\* shouldRetry(error, attempt, maxRetries)
shouldRetry(e, att, maxR) ==
  IF att >= maxR THEN FALSE ELSE RetryableSignature(e)

\* isCrashError / isInnerCrashError of CustomLinkedInScraper.scrapeJobs
isCrashError(e) ==
  \/ Includes(e, "Target page")
  \/ Includes(e, "browser")
  \/ Includes(e, "context has been closed")
  \/ Includes(e, "TargetClosedError")
  \/ Includes(e, "Protocol error")
  \/ Includes(e, "Connection closed")
  \/ e.name = "TargetClosedError"
  \/ e.name = "ProtocolError"

\* new Error(`Failed to scrape jobs after ${maxRetries + 1} attempts`)
ExhaustedError(maxR) ==
  [name |-> "Error", msg |-> {"Failed to scrape jobs after"}, count |-> maxR + 1]

\* "...: Target page, context or browser has been closed"
CrashError == Err("TargetClosedError", {"Target page", "browser"})
\* "browserType.launchPersistentContext: ..." / "browserType.launch: ..."
LaunchError == Err("Error", {"browser"})
\* an HTTP 429 surfaced by the target site
RateLimitError == Err("Error", {"429"})
\* "net::ERR_... network ... timeout"
NetworkError == Err("Error", {"network", "timeout"})
\* Playwright: name TimeoutError, "Timeout 30000ms exceeded."
PwTimeoutError == Err("TimeoutError", {"Timeout"})
\* TypeError: Cannot read properties of null (reading 'newPage')
NullContextError == Err("TypeError", {})
\* any other failure, e.g. an evaluation error in the page
OtherError == Err("Error", {})
\* new Error("Browser not initialized") of SimpleLinkedInScraper.scrapeJobs
NotInitializedError == Err("Error", {"Browser not initialized"})

\* what the page operations of one scrape can throw
ScrapeErrors ==
  {CrashError, RateLimitError, NetworkError, PwTimeoutError, OtherError}

\* calculateRetryDelay(attempt) without its jitter
RECURSIVE Pow2(_)
Pow2(n) == IF n = 0 THEN 1 ELSE 2 * Pow2(n - 1)

Min(a, b) == IF a <= b THEN a ELSE b

\* the base delay without its cap
BackoffUncapped(att) == BaseDelay * Pow2(att)

\* const delay = Math.min(baseDelay * Math.pow(2, attempt), maxDelay)
BackoffBase(att) == Min(BaseDelay * Pow2(att), MaxDelay)


\* Math.random() * 1000, as the whole milliseconds the model distinguishes
Jitters == {0, 999}

\* calculateRetryDelay(attempt)
calculateRetryDelay(att, jitter) == BackoffBase(att) + jitter

\* a delay that does not wait
randomDelayNone(min, max) == {0}

\* randomDelay(min, max): Math.floor(Math.random() * (max - min + 1)) + min
randomDelay(min, max) == {min, max}

\* what the fallback's launch or scrape can throw
FallbackErrors == {PwTimeoutError, CrashError}

\* catch (fallbackError) { ...; throw fallbackError } instead of the original error
RethrowFallbackError(original, fallbackError) == fallbackError

\* catch (fallbackError) { ...; throw error; // Throw original error }
RethrowAfterFallback(original, fallbackError) == original

\* ================================================================ variables
VARIABLES
  \* --- runJobScraper / runEnhancedJobScraper over scrapeJobsWithRetry
  mode,          \* "once": runJobScraper, "enhanced": createEnhancedScraper(config)
  cfgMaxRetries, \* config.maxRetries
  pc,            \* position of the call
  attempt,       \* let attempt of scrapeJobsWithRetry
  ctx,           \* this.context of the current CustomLinkedInScraper
  drv,           \* which CustomLinkedInScraper object this.scraper is
  owner,         \* owner[s]: the driver object whose 'close' listener session s has
  live,          \* browser sessions launched and not closed
  nextSid,       \* next session to launch
  err,           \* the error in flight
  raw,           \* what this.scraper.scrapeJobs(params) returned
  fails,         \* the errors scrapeJobsWithRetry caught, one per failed attempt
  primaryErr,    \* the error scrapeJobsWithRetry raised
  orchJobs,      \* what scrapeJobsWithRetry returned
  fbCtx,         \* the session of the SimpleLinkedInScraper fallback
  out,           \* what the call returned or raised
  slept,         \* the last delay slept, in ms
  log,           \* the steps taken, in order
  \* --- CustomLinkedInScraper.scrapeJobs: the pagination loop on one page
  limit,         \* params.limit
  dom,           \* the result cards in the document, in document order
  spc,           \* position of the scrape
  jobs,          \* const jobs: JobData[]
  scrollAttempts,\* let scrollAttempts of scrapeJobs
  scrollI,       \* i of the for loop of loadMoreJobs
  countBefore,   \* currentJobCount of loadMoreJobs
  counts,        \* the card counts read by the current loadMoreJobs call, in order
  scrolls,       \* scrolls done by the loadMoreJobs calls of this scrape
  sOut,          \* what scrapeJobs returned or raised
  onceOut,       \* what runJobScraper makes of a returned list
  caught,        \* the error a catch inside the pagination loop has handled, and where
  \* --- EnhancedLinkedInScraper.batchScrapeJobs
  nReq,          \* jobParams.length
  requestDelay,  \* this.config.requestDelay
  bIdx,          \* the request the for loop is at (1-based)
  bpc,           \* position of the batch
  allJobs,       \* const allJobs: JobData[]
  outcomes,      \* per request attempted: how its scrapeJobsWithRetry ended
  bSlept,        \* the delays slept, one entry per request attempted (0: none)
  bOut,          \* what batchScrapeJobs returned or raised
  \* --- sanitization of one scraped list (scrapeJobsWithRetry, success path)
  vpc,           \* position
  rawIn,         \* the list this.scraper.scrapeJobs returned
  vOut,          \* validJobs
  vAgain,        \* the records of validJobs sanitized once more
  \* --- getScrapedJobsHandler
  hpc,           \* position of the handler
  jobsFromDB,    \* the persisted snapshot read first
  scraped,       \* what the scraper returned
  uniqueJobs,    \* after the job_id de-duplication
  uploaded,      \* what was handed to uploadJobsFromLinkedInToDB
  response,       \* the kind of response sent
  \* --- EnhancedLinkedInScraper.scrapeJobsWithDescriptions
  enableDesc,    \* this.config.enableJobDescriptionScraping
  listing,       \* const jobs = await this.scrapeJobsWithRetry(params)
  dIdx,          \* the record the for loop is at (1-based)
  dpc,           \* position of the call
  jobsWithDescriptions, \* const jobsWithDescriptions: JobData[]
  fetches,       \* per record processed: the description fetched, or "failed"
  dOut,           \* what scrapeJobsWithDescriptions returned or raised
  \* --- calculateRetryDelay
  rAttempt,      \* attempt
  rJitter,       \* Math.random() * 1000
  rpc,           \* position
  rDelay,         \* the value returned
  \* --- one driver object: initialize(), close(), and its session ending
  kKind,         \* "custom", "authenticated" or "simple"
  kBrowserOf,    \* whether context.browser() names a connected browser while the session lives
  kContext,      \* this.context
  kBrowser,      \* this.browser (SimpleLinkedInScraper)
  kLive,         \* sessions launched by this object and not closed or ended
  kNext,         \* next session to launch
  kRaised,       \* whether the last call raised
  kOps,          \* the operations so far, in order
  kPrev,          \* the object's fields and sessions before the last operation
  \* --- the entry of scrapeJobs of one self-healing driver object
  eKind,         \* "custom" or "authenticated"
  eBrowserOf,    \* whether context.browser() names a connected browser while the session lives
  eCreds,        \* whether config.email and config.password are set
  eContext,      \* this.context
  eLive,         \* sessions launched by this object and not closed or ended
  eNext,         \* next session to launch
  eFails,        \* launches that failed
  eCalls,        \* scrapeJobs calls begun
  epc,           \* position of the call
  eOpens,        \* per newPage() call: who called it and the handle it read
  eOut,           \* how the last call ended
  \* --- AuthenticatedLinkedInScraper.initialize() under concurrent callers
  isInitializing,\* this.isInitializing
  gBrowserOf,    \* whether context.browser() names a connected browser while the session lives
  gContext,      \* this.context
  gLive,         \* sessions launched by this object and not closed or ended
  gNext,         \* next session to launch
  gpc,           \* gpc[c]: where caller c is in initialize()
  gCalls,        \* initialize() calls begun
  gSkipped,      \* calls the guard returned from at once
  gDone,          \* calls that ran to their end: "ok" or "failed", in order
  \* --- AuthenticatedLinkedInScraper.scrapeJobs: the page loop by URL offset
  uLimit,        \* params.limit
  pageSize,      \* const pageSize
  startPage,     \* const startPage
  site,          \* which cards the site serves at a start offset
  upc,           \* position of the scrape
  currentPage,   \* let currentPage of the for loop
  currentUrl,    \* let currentUrl: its start parameter
  uJobs,         \* const jobs: JobData[] (the ids)
  slowScrolls,   \* let scrollAttempts of slowScrollToLoadJobs
  starts,        \* the start offsets navigated to, in order
  passes,        \* passes of the for loop begun
  uOut,           \* what scrapeJobs returned or raised, and why it stopped
  \* --- EnhancedLinkedInScraper description fetches under overlapping calls
  enableRateLimiting,   \* config.enableRateLimiting
  maxConcurrentRequests,\* config.maxConcurrentRequests (0: not a usable value, || 3 applies)
  activeRequests,       \* this.activeRequests
  ratePc,               \* ratePc[c]: where call c of scrapeJobsWithDescriptions is in its loop
  rLeft,                \* rLeft[c]: listing records call c has still to go through
  inFlight,             \* getJobDescription calls made and not settled
  admitted,              \* count in flight seen by each fetch when it was started, in order
  \* --- two get_and_upload requests handled concurrently
  store,         \* the persisted job records
  qpc,           \* qpc[r]: where request r is in getScrapedJobsHandler
  qSnapshot,     \* qSnapshot[r]: jobsFromDB as request r read it
  qUploaded,      \* qUploaded[r]: the list request r passed to uploadJobsFromLinkedInToDB
  \* --- ensureFreshTokens: parallel refreshAccessToken calls of one user
  tokenStore,    \* email_accounts of the user: tokenStore[a] is the token generation stored for account a
  expired,       \* the accounts whose token isTokenExpired() finds expired
  tpc,           \* tpc[a]: where the refreshAccessToken call for account a is
  emailAccounts, \* emailAccounts[a]: the account list as the call for account a read it
  epcTokens      \* where ensureFreshTokens is

orchVars ==
  <<mode, cfgMaxRetries, pc, attempt, ctx, drv, owner, live, nextSid, err, raw,
    fails, primaryErr, orchJobs, fbCtx, out, slept, log>>

scrapeVars ==
  <<limit, dom, spc, jobs, scrollAttempts, scrollI, countBefore, counts, scrolls, sOut, onceOut, caught>>

batchVars == <<nReq, requestDelay, bIdx, bpc, allJobs, outcomes, bSlept, bOut>>

sanVars == <<vpc, rawIn, vOut, vAgain>>

handlerVars == <<hpc, jobsFromDB, scraped, uniqueJobs, uploaded, response>>

delayVars == <<rAttempt, rJitter, rpc, rDelay>>

driverVars == <<kKind, kBrowserOf, kContext, kBrowser, kLive, kNext, kRaised, kOps, kPrev>>

descVars == <<enableDesc, listing, dIdx, dpc, jobsWithDescriptions, fetches, dOut>>

ensureVars ==
  <<eKind, eBrowserOf, eCreds, eContext, eLive, eNext, eFails, eCalls, epc, eOpens, eOut>>

guardVars ==
  <<isInitializing, gBrowserOf, gContext, gLive, gNext, gpc, gCalls, gSkipped, gDone>>

urlVars ==
  <<uLimit, pageSize, startPage, site, upc, currentPage, currentUrl, uJobs, slowScrolls,
    starts, passes, uOut>>

rateVars ==
  <<enableRateLimiting, maxConcurrentRequests, activeRequests, ratePc, rLeft, inFlight, admitted>>

uploadVars == <<store, qpc, qSnapshot, qUploaded>>

tokenVars == <<tokenStore, expired, tpc, emailAccounts, epcTokens>>

vars == <<orchVars, scrapeVars, batchVars, sanVars, handlerVars, descVars, delayVars, driverVars, ensureVars, guardVars, urlVars, rateVars, uploadVars, tokenVars>>

\* what the steps of one component leave alone: the other components' state
notOrch == <<scrapeVars, batchVars, sanVars, handlerVars, descVars, delayVars, driverVars, ensureVars, guardVars, urlVars, rateVars, uploadVars, tokenVars>>

notScrape == <<orchVars, batchVars, sanVars, handlerVars, descVars, delayVars, driverVars, ensureVars, guardVars, urlVars, rateVars, uploadVars, tokenVars>>

notBatch == <<orchVars, scrapeVars, sanVars, handlerVars, descVars, delayVars, driverVars, ensureVars, guardVars, urlVars, rateVars, uploadVars, tokenVars>>

notSan == <<orchVars, scrapeVars, batchVars, handlerVars, descVars, delayVars, driverVars, ensureVars, guardVars, urlVars, rateVars, uploadVars, tokenVars>>

notHandler == <<orchVars, scrapeVars, batchVars, sanVars, descVars, delayVars, driverVars, ensureVars, guardVars, urlVars, rateVars, uploadVars, tokenVars>>

notDesc == <<orchVars, scrapeVars, batchVars, sanVars, handlerVars, delayVars, driverVars, ensureVars, guardVars, urlVars, rateVars, uploadVars, tokenVars>>

notDelay == <<orchVars, scrapeVars, batchVars, sanVars, handlerVars, descVars, driverVars, ensureVars, guardVars, urlVars, rateVars, uploadVars, tokenVars>>

notDriver == <<orchVars, scrapeVars, batchVars, sanVars, handlerVars, descVars, delayVars, ensureVars, guardVars, urlVars, rateVars, uploadVars, tokenVars>>

notEnsure == <<orchVars, scrapeVars, batchVars, sanVars, handlerVars, descVars, delayVars, driverVars, guardVars, urlVars, rateVars, uploadVars, tokenVars>>

notGuard == <<orchVars, scrapeVars, batchVars, sanVars, handlerVars, descVars, delayVars, driverVars, ensureVars, urlVars, rateVars, uploadVars, tokenVars>>

notUrl == <<orchVars, scrapeVars, batchVars, sanVars, handlerVars, descVars, delayVars, driverVars, ensureVars, guardVars, rateVars, uploadVars, tokenVars>>

notRate == <<orchVars, scrapeVars, batchVars, sanVars, handlerVars, descVars, delayVars, driverVars, ensureVars, guardVars, urlVars, uploadVars, tokenVars>>

notUpload == <<orchVars, scrapeVars, batchVars, sanVars, handlerVars, descVars, delayVars, driverVars, ensureVars, guardVars, urlVars, rateVars, tokenVars>>

notToken == <<orchVars, scrapeVars, batchVars, sanVars, handlerVars, descVars, delayVars, driverVars, ensureVars, guardVars, urlVars, rateVars, uploadVars>>

NoError == Err("none", {})

Event(e, a) == [ev |-> e, att |-> a]

\* const maxRetries = this.config.maxRetries || 3
MaxRetriesOf(cfg) == IF cfg = 0 THEN DefaultMaxRetries ELSE cfg

maxRetries == MaxRetriesOf(cfgMaxRetries)

\* the records a card list yields: an acceptable record and one whose
\* company is missing (extractJobsFromPage keeps it, isValidJobData rejects it)
SampleJobs ==
  {CardJob(<<"1">>, <<"t">>, <<"c">>),
   CardJob(<<"2">>, <<"t">>, <<>>)}

RECURSIVE SeqsUpTo(_, _)
SeqsUpTo(S, n) ==
  IF n = 0 THEN {<<>>}
  ELSE LET shorter == SeqsUpTo(S, n - 1)
       IN  shorter \cup {Append(q, x) : q \in {r \in shorter : Len(r) = n - 1}, x \in S}

RawLists == SeqsUpTo(SampleJobs, MaxRaw)

CountEv(e) == Cardinality({i \in 1..Len(log) : log[i].ev = e})

\* a launch may fail while the model's budget of failed launches lasts
LaunchMayFail == CountEv("launchFailed") < MaxLaunchFailures

OrchInit ==
  /\ mode \in {"once", "enhanced"}
  /\ cfgMaxRetries \in (IF mode = "once" THEN {OnceMaxRetries} ELSE 0..MaxBudget)
  /\ pc = "create"
  /\ attempt = 0
  /\ ctx = NoCtx
  /\ drv = 1
  /\ owner = <<>>
  /\ live = {}
  /\ nextSid = 1
  /\ err = NoError
  /\ raw = <<>>
  /\ fails = <<>>
  /\ primaryErr = NoError
  /\ orchJobs = <<>>
  /\ fbCtx = NoCtx
  /\ out = [kind |-> "none", err |-> NoError, jobs |-> <<>>]
  /\ slept = 0
  /\ log = <<>>

\* chromium.launchPersistentContext(...) succeeded for driver object d:
\* the handle is set and the 'close' listener registered
LaunchOk(d) ==
  /\ ctx' = nextSid
  /\ live' = live \cup {nextSid}
  /\ owner' = Append(owner, d)
  /\ nextSid' = nextSid + 1

\* CustomLinkedInScraper.close(): closes the context the handle names, if any
CloseCtx ==
  /\ live' = (IF ctx # NoCtx THEN live \ {ctx} ELSE live)
  /\ ctx' = NoCtx

\* createEnhancedScraper(config): new EnhancedLinkedInScraper, initialize()
CreateScraper ==
  /\ pc = "create"
  /\ UNCHANGED notOrch
  /\ \/ /\ LaunchOk(drv)
        /\ log' = Append(log, Event("create", attempt))
        /\ pc' = "loop"
        /\ UNCHANGED out
     \/ /\ LaunchMayFail
        /\ log' = log \o <<Event("create", attempt), Event("launchFailed", attempt)>>
        /\ out' = [kind |-> "raised", err |-> LaunchError, jobs |-> <<>>]
        /\ pc' = "done"
        /\ UNCHANGED <<ctx, live, owner, nextSid>>
  /\ UNCHANGED <<mode, cfgMaxRetries, attempt, drv, err, raw, fails, primaryErr,
                 orchJobs, fbCtx, slept>>

\* a retry that goes on with the session it has
KeepsSession(att) == FALSE

\* if (attempt > 0) { close, cooldown, new CustomLinkedInScraper, initialize }
NeedsFreshSession(att) == att > 0

\* while (attempt <= maxRetries) { try { if (attempt > 0) ... ; falling out of the
\* loop throws the terminal error
LoopHead ==
  /\ pc = "loop"
  /\ UNCHANGED notOrch
  /\ IF attempt <= maxRetries
       THEN /\ pc' = (IF NeedsFreshSession(attempt) THEN "reinitClose" ELSE "scrape")
            /\ UNCHANGED primaryErr
       ELSE /\ primaryErr' = ExhaustedError(maxRetries)
            /\ pc' = "orchRaised"
  /\ UNCHANGED <<mode, cfgMaxRetries, attempt, ctx, drv, owner, live, nextSid, err,
                 raw, fails, orchJobs, fbCtx, out, slept, log>>

\* await this.scraper.close()
ReinitClose ==
  /\ pc = "reinitClose"
  /\ UNCHANGED notOrch
  /\ CloseCtx
  /\ log' = Append(log, Event("reinitClose", attempt))
  /\ pc' = "reinitCooldown"
  /\ UNCHANGED <<mode, cfgMaxRetries, attempt, drv, owner, nextSid, err, raw, fails,
                 primaryErr, orchJobs, fbCtx, out, slept>>

\* await new Promise((resolve) => setTimeout(resolve, 2000))
ReinitSleep ==
  /\ pc = "reinitCooldown"
  /\ UNCHANGED notOrch
  /\ slept' = ReinitCooldown
  /\ log' = Append(log, Event("cooldown", attempt))
  /\ pc' = "reinitInit"
  /\ UNCHANGED <<mode, cfgMaxRetries, attempt, ctx, drv, owner, live, nextSid, err,
                 raw, fails, primaryErr, orchJobs, fbCtx, out>>

\* a failed re-initialization that is logged and followed by the scrape all the same
ScrapeAfterReinitFailure == "scrape"

\* the close and the initialize() of a retry sit in the try block of the loop:
\* what initialize() throws lands in the catch that handles a failed scrape
AfterReinitFailure == "catch"

\* this.scraper = new CustomLinkedInScraper(this.config); await this.scraper.initialize()
ReinitInit ==
  /\ pc = "reinitInit"
  /\ UNCHANGED notOrch
  /\ drv' = drv + 1
  /\ \/ /\ LaunchOk(drv + 1)
        /\ log' = Append(log, Event("reinit", attempt))
        /\ pc' = "scrape"
        /\ UNCHANGED err
     \/ /\ LaunchMayFail
        /\ log' = log \o <<Event("reinit", attempt), Event("launchFailed", attempt)>>
        /\ err' = LaunchError
        /\ pc' = AfterReinitFailure
        /\ UNCHANGED <<ctx, live, owner, nextSid>>
  /\ UNCHANGED <<mode, cfgMaxRetries, attempt, raw, fails, primaryErr, orchJobs,
                 fbCtx, out, slept>>

\* this.scraper.scrapeJobs(params) is entered: await this.ensureBrowserReady()
ScrapeEnter ==
  /\ pc = "scrape"
  /\ UNCHANGED notOrch
  /\ IF ctx = NoCtx
       THEN \/ /\ LaunchOk(drv)
               /\ log' = log \o <<Event("scrape", attempt), Event("ensure", attempt)>>
               /\ pc' = "page"
               /\ UNCHANGED err
            \/ /\ LaunchMayFail
               /\ log' = log \o <<Event("scrape", attempt), Event("ensure", attempt),
                                  Event("launchFailed", attempt)>>
               /\ err' = LaunchError
               /\ pc' = "catch"
               /\ UNCHANGED <<ctx, live, owner, nextSid>>
       ELSE /\ log' = Append(log, Event("scrape", attempt))
            /\ pc' = "page"
            /\ UNCHANGED <<ctx, live, owner, nextSid, err>>
  /\ UNCHANGED <<mode, cfgMaxRetries, attempt, drv, raw, fails, primaryErr, orchJobs,
                 fbCtx, out, slept>>

\* a wait for the result container that times out throws out of scrapeJobs
SelectorTimeoutRethrown == FALSE

\* try { await page.waitForSelector(...) } catch { console.warn(...) }: the
\* timeout of the wait for the result container is swallowed
SelectorTimeoutSwallowed == TRUE

\* the try block of scrapeJobs: this.context!.newPage(), navigation, pagination;
\* it returns a record list or throws. At a login wall it returns []; when the
\* result container never appears the wait times out, the loop extracts nothing,
\* loadMoreJobs sees no growth and the scrape returns []. newPage() follows
\* ensureBrowserReady() with no event handled in between, so the handle it reads
\* is set; a session that ends while the body runs makes its page operation
\* throw the crash error
ScrapeBody ==
  /\ pc = "page"
  /\ UNCHANGED notOrch
  /\ IF ctx = NoCtx
       THEN /\ err' = CrashError
            /\ pc' = "drvCatch"
            /\ UNCHANGED <<raw, log>>
       ELSE \/ \E r \in RawLists :
                 /\ raw' = r
                 /\ pc' = "validate"
                 /\ UNCHANGED <<err, log>>
            \/ /\ raw' = <<>>
               /\ log' = Append(log, Event("loginWall", attempt))
               /\ pc' = "validate"
               /\ UNCHANGED err
            \/ /\ log' = Append(log, Event("noContainer", attempt))
               /\ IF SelectorTimeoutSwallowed
                    THEN /\ raw' = <<>>
                         /\ pc' = "validate"
                         /\ UNCHANGED err
                    ELSE /\ err' = PwTimeoutError
                         /\ pc' = "drvCatch"
                         /\ UNCHANGED raw
            \/ \E e \in ScrapeErrors :
                 /\ err' = e
                 /\ pc' = "drvCatch"
                 /\ UNCHANGED <<raw, log>>
  /\ UNCHANGED <<mode, cfgMaxRetries, attempt, ctx, drv, owner, live, nextSid, fails,
                 primaryErr, orchJobs, fbCtx, out, slept>>

\* the catch block of scrapeJobs: on a crash signature the handle is cleared and
\* initialize() runs (whose failure replaces the error); then throw err
DriverCatch ==
  /\ pc = "drvCatch"
  /\ UNCHANGED notOrch
  /\ pc' = "catch"
  /\ IF isCrashError(err)
       THEN \/ /\ LaunchOk(drv)
               /\ log' = Append(log, Event("recover", attempt))
               /\ UNCHANGED err
            \/ /\ LaunchMayFail
               /\ log' = log \o <<Event("recover", attempt),
                                  Event("launchFailed", attempt)>>
               /\ ctx' = NoCtx
               /\ err' = LaunchError
                  /\ UNCHANGED <<live, owner, nextSid>>
       ELSE UNCHANGED <<ctx, live, owner, nextSid, err, log>>
  /\ UNCHANGED <<mode, cfgMaxRetries, attempt, drv, raw, fails, primaryErr, orchJobs,
                 fbCtx, out, slept>>

\* const validJobs = jobs.filter(isValidJobData).map(sanitizeJobData); return validJobs
ValidateReturn ==
  /\ pc = "validate"
  /\ UNCHANGED notOrch
  /\ orchJobs' = ValidateAndSanitize(raw)
  /\ pc' = "orchReturned"
  /\ UNCHANGED <<mode, cfgMaxRetries, attempt, ctx, drv, owner, live, nextSid, err,
                 raw, fails, primaryErr, fbCtx, out, slept, log>>

\* catch (error) { if (isRateLimited(error)) ...
Catch ==
  /\ pc = "catch"
  /\ UNCHANGED notOrch
  /\ fails' = Append(fails, err)
  /\ pc' = (IF isRateLimited(err) THEN "rateSleep" ELSE "decide")
  /\ UNCHANGED <<mode, cfgMaxRetries, attempt, ctx, drv, owner, live, nextSid, err,
                 raw, primaryErr, orchJobs, fbCtx, out, slept, log>>

\* await randomDelay(5000, 10000)
RateLimitSleep ==
  /\ pc = "rateSleep"
  /\ UNCHANGED notOrch
  /\ slept' \in randomDelay(RateLimitMin, RateLimitMax)
  /\ log' = Append(log, Event("rateSleep", attempt))
  /\ pc' = "decide"
  /\ UNCHANGED <<mode, cfgMaxRetries, attempt, ctx, drv, owner, live, nextSid, err,
                 raw, fails, primaryErr, orchJobs, fbCtx, out>>

\* if (!shouldRetry(error, attempt, maxRetries)) throw error; attempt++;
\* if (attempt <= maxRetries) { ... }
Decide ==
  /\ pc = "decide"
  /\ UNCHANGED notOrch
  /\ IF ~shouldRetry(err, attempt, maxRetries)
       THEN /\ primaryErr' = err
            /\ pc' = "orchRaised"
            /\ UNCHANGED attempt
       ELSE /\ attempt' = attempt + 1
            /\ pc' = (IF attempt + 1 <= maxRetries THEN "backoff" ELSE "loop")
            /\ UNCHANGED primaryErr
  /\ UNCHANGED <<mode, cfgMaxRetries, ctx, drv, owner, live, nextSid, err, raw, fails,
                 orchJobs, fbCtx, out, slept, log>>

\* const delay = calculateRetryDelay(attempt); await new Promise(... setTimeout(resolve, delay))
Backoff ==
  /\ pc = "backoff"
  /\ UNCHANGED notOrch
  /\ \E j \in Jitters : slept' = calculateRetryDelay(attempt, j)
  /\ log' = Append(log, Event("backoff", attempt))
  /\ pc' = "loop"
  /\ UNCHANGED <<mode, cfgMaxRetries, attempt, ctx, drv, owner, live, nextSid, err,
                 raw, fails, primaryErr, orchJobs, fbCtx, out>>

\* scrapeJobsWithRetry returned to its caller: the legacy mapping of runJobScraper,
\* or the list as it is
PrimaryReturned ==
  /\ pc = "orchReturned"
  /\ UNCHANGED notOrch
  /\ out' = [kind |-> "returned", err |-> NoError,
             jobs |-> (IF mode = "once" THEN LegacyJobs(orchJobs) ELSE orchJobs)]
  /\ pc' = "finally"
  /\ UNCHANGED <<mode, cfgMaxRetries, attempt, ctx, drv, owner, live, nextSid, err,
                 raw, fails, primaryErr, orchJobs, fbCtx, slept, log>>

\* scrapeJobsWithRetry raised: runJobScraper turns to the fallback, the other
\* callers rethrow
PrimaryRaised ==
  /\ pc = "orchRaised"
  /\ UNCHANGED notOrch
  /\ IF mode = "once"
       THEN /\ pc' = "fallbackCreate"
            /\ UNCHANGED out
       ELSE /\ out' = [kind |-> "raised", err |-> primaryErr, jobs |-> <<>>]
            /\ pc' = "finally"
  /\ UNCHANGED <<mode, cfgMaxRetries, attempt, ctx, drv, owner, live, nextSid, err,
                 raw, fails, primaryErr, orchJobs, fbCtx, slept, log>>

\* const simpleScraper = await createSimpleScraper()
FallbackCreate ==
  /\ pc = "fallbackCreate"
  /\ UNCHANGED notOrch
  /\ \/ /\ fbCtx' = nextSid
        /\ log' = Append(log, Event("fallback", attempt))
        /\ live' = live \cup {nextSid}
        /\ owner' = Append(owner, 0)
        /\ nextSid' = nextSid + 1
        /\ pc' = "fallbackScrape"
        /\ UNCHANGED out
     \/ /\ LaunchMayFail
        /\ log' = log \o <<Event("fallback", attempt), Event("launchFailed", attempt)>>
        /\ out' = [kind |-> "raised", jobs |-> <<>>,
                   err |-> RethrowAfterFallback(primaryErr, LaunchError)]
        /\ pc' = "finally"
        /\ UNCHANGED <<fbCtx, live, owner, nextSid>>
  /\ UNCHANGED <<mode, cfgMaxRetries, attempt, ctx, drv, err, raw, fails, primaryErr,
                 orchJobs, slept>>

\* simpleScraper.scrapeJobs(...), the mapping to the legacy shape, and on success
\* simpleScraper.close(); catch (fallbackError) { throw error }
FallbackScrape ==
  /\ pc = "fallbackScrape"
  /\ UNCHANGED notOrch
  /\ \/ \E r \in RawLists :
          /\ raw' = r
          /\ out' = [kind |-> "returned", err |-> NoError,
                     jobs |-> LegacyFallbackJobs(r)]
          /\ live' = live \ {fbCtx}
          /\ fbCtx' = NoCtx
          /\ log' = Append(log, Event("fallbackOk", attempt))
     \/ \E e \in FallbackErrors :
          /\ out' = [kind |-> "raised", jobs |-> <<>>,
                     err |-> RethrowAfterFallback(primaryErr, e)]
          /\ log' = Append(log, Event("fallbackFailed", attempt))
          /\ UNCHANGED <<fbCtx, live, raw>>
  /\ pc' = "finally"
  /\ UNCHANGED <<mode, cfgMaxRetries, attempt, ctx, drv, owner, nextSid, err,
                 fails, primaryErr, orchJobs, slept>>

\* finally { await scraper.close() }
Finally ==
  /\ pc = "finally"
  /\ UNCHANGED notOrch
  /\ CloseCtx
  /\ log' = Append(log, Event("finalClose", attempt))
  /\ pc' = "done"
  /\ UNCHANGED <<mode, cfgMaxRetries, attempt, drv, owner, nextSid, err, raw, fails,
                 primaryErr, orchJobs, fbCtx, out, slept>>

\* A live session ends on its own (the browser crashes or is killed): its 'close'
\* listener clears the handle of the driver object that registered it. Sessions
\* can end at any time; the model lets a session of the current driver object end
\* just before the steps that read the handle, which is where the moment it ended
\* makes a difference (before a close() of that same session it makes none).
\* Sessions whose listener belongs to a discarded driver object, and the fallback's
\* browser, are kept until they are closed.
SessionDies ==
  /\ pc \in {"reinitClose", "scrape", "page", "drvCatch", "finally"}
  /\ UNCHANGED notOrch
  /\ CountEv("died") < MaxDeaths
  /\ log' = Append(log, Event("died", attempt))
  /\ \E s \in live :
       /\ owner[s] = drv
       /\ pc \in {"reinitClose", "finally"} => s # ctx
       /\ live' = live \ {s}
       /\ ctx' = NoCtx
  /\ UNCHANGED <<mode, cfgMaxRetries, pc, attempt, drv, owner, nextSid, err, raw,
                 fails, primaryErr, orchJobs, fbCtx, out, slept>>

OrchNext ==
  \/ CreateScraper
  \/ LoopHead
  \/ ReinitClose
  \/ ReinitSleep
  \/ ReinitInit
  \/ ScrapeEnter
  \/ ScrapeBody
  \/ DriverCatch
  \/ ValidateReturn
  \/ Catch
  \/ RateLimitSleep
  \/ Decide
  \/ Backoff
  \/ PrimaryReturned
  \/ PrimaryRaised
  \/ FallbackCreate
  \/ FallbackScrape
  \/ Finally
  \/ SessionDies

\* ------------------------------------------- the pagination loop of scrapeJobs
\* a result card: what the selectors of extractJobsFromPage read from it
Card(id, title, company) == [id |-> id, title |-> title, company |-> company]

\* the cards the target site can serve: two postings, a card without an id, a
\* second card of posting 1 whose title is blank, a card without a company link
Cards ==
  {Card(<<"1">>, <<"t">>, <<"c">>),
   Card(<<"2">>, <<" ", "t">>, <<"c">>),
   Card(<<>>, <<"t">>, <<"c">>),
   Card(<<"1">>, <<" ">>, <<"c">>),
   Card(<<"2">>, <<"t">>, <<>>)}

\* els.forEach of extractJobsFromPage with its seenIds
RECURSIVE ExtractFrom(_, _)
ExtractFrom(cards, seenIds) ==
  IF cards = <<>> THEN <<>>
  ELSE LET el == Head(cards)
       IN  IF ~Truthy(el.id) \/ el.id \in seenIds
             THEN ExtractFrom(Tail(cards), seenIds)
             ELSE (IF Truthy(Trim(el.title))
                     THEN <<CardJob(el.id, el.title, el.company)>>
                     ELSE <<>>)
                  \o ExtractFrom(Tail(cards), seenIds \cup {el.id})

\* extractJobsFromPage(page)
extractJobsFromPage(cards) == ExtractFrom(cards, {})

\* const targetLimit = params.limit || 100
TargetLimitOf(n) == IF n = 0 THEN DefaultLimit ELSE n

targetLimit == TargetLimitOf(limit)

\* jobs.slice(0, targetLimit)
Slice(s, n) == SubSeq(s, 1, Min(Len(s), n))

NoOut == [kind |-> "none", err |-> NoError, jobs |-> <<>>]

\* what a page operation inside the pagination loop can throw: an error with a
\* crash signature or one without
LoopErrors == {CrashError, OtherError}

\* no error handled inside the loop
NoCaught == [at |-> "none", err |-> NoError]

ScrapeInit ==
  /\ limit \in 0..MaxLimit
  /\ dom \in SeqsUpTo(Cards, MaxDom)
  /\ spc = "open"
  /\ jobs = <<>>
  /\ scrollAttempts = 0
  /\ scrollI = 0
  /\ countBefore = 0
  /\ counts = <<>>
  /\ scrolls = 0
  /\ sOut = NoOut
  /\ onceOut = NoOut
  /\ caught = NoCaught

ScrapeIdle ==
  /\ limit = 0
  /\ dom = <<>>
  /\ spc = "off"
  /\ jobs = <<>>
  /\ scrollAttempts = 0
  /\ scrollI = 0
  /\ countBefore = 0
  /\ counts = <<>>
  /\ scrolls = 0
  /\ sOut = NoOut
  /\ onceOut = NoOut
  /\ caught = NoCaught

\* navigation, login-wall detection and the wait for the result container: the
\* scrape goes on to the loop, returns [] at a login wall, or throws
OpenPage ==
  /\ spc = "open"
  /\ UNCHANGED notScrape
  /\ \/ /\ spc' = "loop"
        /\ UNCHANGED sOut
     \/ /\ spc' = "returned"
        /\ sOut' = [kind |-> "returned", err |-> NoError, jobs |-> <<>>]
     \/ \E e \in ScrapeErrors :
          /\ spc' = "raised"
          /\ sOut' = [kind |-> "raised", err |-> e, jobs |-> <<>>]
  /\ UNCHANGED <<limit, dom, jobs, scrollAttempts, scrollI, countBefore, counts, scrolls, onceOut, caught>>

\* while (jobs.length < targetLimit && scrollAttempts < maxScrollAttempts);
\* after the loop: return jobs.slice(0, targetLimit)
LoopTest ==
  /\ spc = "loop"
  /\ UNCHANGED notScrape
  /\ IF Len(jobs) < targetLimit /\ scrollAttempts < MaxScrollAttempts
       THEN /\ spc' = "extract"
            /\ UNCHANGED sOut
       ELSE /\ spc' = "returned"
            /\ sOut' = [kind |-> "returned", err |-> NoError,
                        jobs |-> Slice(jobs, targetLimit)]
  /\ UNCHANGED <<limit, dom, jobs, scrollAttempts, scrollI, countBefore, counts, scrolls, onceOut, caught>>

\* an inner catch that rethrows whatever it caught
InnerCatchRethrowsAll(e) == "raised"

\* catch (innerErr) of the loop: if (isInnerCrashError) throw innerErr; else break
InnerCatch(e) == IF isCrashError(e) THEN "raised" ELSE "returned"

\* const newJobs = await this.extractJobsFromPage(page); jobs.push(...newJobs);
\* if (jobs.length >= targetLimit) break; an error breaks the loop, or is
\* rethrown when it has a crash signature
ExtractStep ==
  /\ spc = "extract"
  /\ UNCHANGED notScrape
  /\ \/ LET all == jobs \o extractJobsFromPage(dom)
        IN  /\ jobs' = all
            /\ UNCHANGED caught
            /\ IF Len(all) >= targetLimit
                 THEN /\ spc' = "returned"
                      /\ sOut' = [kind |-> "returned", err |-> NoError,
                                  jobs |-> Slice(all, targetLimit)]
                 ELSE /\ spc' = "loadMore"
                      /\ UNCHANGED sOut
     \/ \E e \in LoopErrors :
          /\ UNCHANGED jobs
          /\ caught' = [at |-> "extract", err |-> e]
          /\ IF InnerCatch(e) = "raised"
               THEN /\ spc' = "raised"
                    /\ sOut' = [kind |-> "raised", err |-> e, jobs |-> <<>>]
               ELSE /\ spc' = "returned"
                    /\ sOut' = [kind |-> "returned", err |-> NoError,
                                jobs |-> Slice(jobs, targetLimit)]
  /\ UNCHANGED <<limit, dom, scrollAttempts, scrollI, countBefore, counts, scrolls, onceOut>>

\* loadMoreJobs is entered: currentJobCount is read (a failure makes it return
\* false, which ends the loop)
LoadMoreEnter ==
  /\ spc = "loadMore"
  /\ UNCHANGED notScrape
  /\ \/ /\ countBefore' = Len(dom)
        /\ counts' = <<Len(dom)>>
        /\ scrollI' = 0
        /\ spc' = "scroll"
        /\ UNCHANGED <<sOut, caught>>
     \/ /\ spc' = "returned"
        /\ \E e \in LoopErrors : caught' = [at |-> "loadMore", err |-> e]
        /\ counts' = <<>>
        /\ sOut' = [kind |-> "returned", err |-> NoError,
                    jobs |-> Slice(jobs, targetLimit)]
        /\ UNCHANGED <<countBefore, scrollI>>
  /\ UNCHANGED <<limit, dom, jobs, scrollAttempts, scrolls, onceOut>>

\* the cards a scroll can add: any cards while the document holds fewer than
\* MaxDom, and one more card without an id while it holds only such cards and
\* fewer than MaxDeepDom (a site that never stops serving)
Growth(d) ==
  SeqsUpTo(Cards, IF Len(d) < MaxDom THEN MaxDom - Len(d) ELSE 0)
    \cup (IF /\ d # <<>>
             /\ \A i \in 1..Len(d) : d[i] = Card(<<>>, <<"t">>, <<"c">>)
             /\ Len(d) < MaxDeepDom
            THEN {<<Card(<<>>, <<"t">>, <<"c">>)>>} ELSE {})

\* the growth test that takes a count equal to the one before for growth
PassResultGrowthOrEqual(i, before, after) ==
  IF after >= before THEN "true"
  ELSE IF i = ScrollsPerLoad - 1 THEN "false" ELSE "again"

\* what one pass of the for loop of loadMoreJobs makes of the count it reads:
\* if (newJobCount > currentJobCount) return true;
\* if (i === scrollAttempts - 1) return false
PassResult(i, before, after) ==
  IF after > before THEN "true"
  ELSE IF i = ScrollsPerLoad - 1 THEN "false" ELSE "again"

\* one pass of the for loop of loadMoreJobs: scroll, wait, count again. The site
\* may have added cards. More cards: return true (scrollAttempts++, next loop
\* pass); none after the last scroll: return false (break); a page operation
\* that throws: catch, return false
ScrollStep ==
  /\ spc = "scroll"
  /\ UNCHANGED notScrape
  /\ scrolls' = scrolls + 1
  /\ \/ \E more \in Growth(dom) :
          /\ dom' = dom \o more
          /\ counts' = Append(counts, Len(dom'))
          /\ UNCHANGED caught
          /\ LET res == PassResult(scrollI, countBefore, Len(dom'))
             IN  IF res = "true"
                   THEN /\ scrollAttempts' = scrollAttempts + 1
                        /\ spc' = "loop"
                        /\ UNCHANGED <<scrollI, sOut>>
                   ELSE IF res = "false"
                          THEN /\ spc' = "returned"
                               /\ sOut' = [kind |-> "returned", err |-> NoError,
                                           jobs |-> Slice(jobs, targetLimit)]
                               /\ UNCHANGED <<scrollI, scrollAttempts>>
                          ELSE /\ scrollI' = scrollI + 1
                               /\ UNCHANGED <<spc, sOut, scrollAttempts>>
     \/ /\ spc' = "returned"
        /\ \E e \in LoopErrors : caught' = [at |-> "loadMore", err |-> e]
        /\ sOut' = [kind |-> "returned", err |-> NoError,
                    jobs |-> Slice(jobs, targetLimit)]
        /\ UNCHANGED <<dom, counts, scrollI, scrollAttempts>>
  /\ UNCHANGED <<limit, jobs, countBefore, onceOut>>

\* the list goes back through scrapeJobsWithRetry (validation, sanitization) and
\* runJobScraper (legacy mapping) to the caller of scrapeOnce
ReturnToCaller ==
  /\ spc = "returned"
  /\ UNCHANGED notScrape
  /\ onceOut' = [kind |-> "returned", err |-> NoError,
                 jobs |-> LegacyJobs(ValidateAndSanitize(sOut.jobs))]
  /\ spc' = "done"
  /\ UNCHANGED <<limit, dom, jobs, scrollAttempts, scrollI, countBefore, counts, scrolls, sOut, caught>>

ScrapeNext ==
  \/ OpenPage
  \/ LoopTest
  \/ ExtractStep
  \/ LoadMoreEnter
  \/ ScrollStep
  \/ ReturnToCaller

\* --------------------------------------------------------- batchScrapeJobs
\* params.location of the i-th request
LocationOf(i) == <<<<"A", "B", "C", "D", "E">>[i]>>

\* the records of request i carry its location
AtLocation(list, i) == [k \in 1..Len(list) |-> [list[k] EXCEPT !.location = LocationOf(i)]]

RECURSIVE ConcatOk(_)
ConcatOk(os) ==
  IF os = <<>> THEN <<>>
  ELSE (IF Head(os).ok THEN Head(os).jobs ELSE <<>>) \o ConcatOk(Tail(os))

\* a batch that gives up at the first failed request: no later request is tried
AbortAfterFailure(i, n) == n + 1

\* the for loop goes on with the next request after a request that failed
NextAfterFailure(i, n) == i + 1

BatchInit ==
  /\ nReq \in 0..MaxRequests
  /\ requestDelay \in {0, BatchRequestDelay}
  /\ bIdx = 1
  /\ bpc = "loop"
  /\ allJobs = <<>>
  /\ outcomes = <<>>
  /\ bSlept = <<>>
  /\ bOut = NoOut

BatchIdle ==
  /\ nReq = 0
  /\ requestDelay = 0
  /\ bIdx = 1
  /\ bpc = "off"
  /\ allJobs = <<>>
  /\ outcomes = <<>>
  /\ bSlept = <<>>
  /\ bOut = NoOut

\* one pass of for (const params of jobParams): scrapeJobsWithRetry(params)
\* returns its validated list, which is pushed, or raises, which is logged
BatchRequest ==
  /\ bpc = "loop"
  /\ UNCHANGED notBatch
  /\ bIdx <= nReq
  /\ \/ \E r \in RawLists :
          LET got == ValidateAndSanitize(AtLocation(r, bIdx))
          IN  /\ allJobs' = allJobs \o got
              /\ outcomes' = Append(outcomes, [ok |-> TRUE, jobs |-> got])
              /\ bpc' = (IF requestDelay # 0 THEN "delay" ELSE "loop")
              /\ bIdx' = (IF requestDelay # 0 THEN bIdx ELSE bIdx + 1)
              /\ bSlept' = (IF requestDelay # 0 THEN bSlept ELSE Append(bSlept, 0))
     \/ \E e \in {RateLimitError, OtherError} :
          /\ outcomes' = Append(outcomes, [ok |-> FALSE, jobs |-> <<>>])
          /\ bSlept' = Append(bSlept, 0)
          /\ bIdx' = NextAfterFailure(bIdx, nReq)
          /\ UNCHANGED <<allJobs, bpc>>
  /\ UNCHANGED <<nReq, requestDelay, bOut>>

\* await randomDelay(this.config.requestDelay, this.config.requestDelay + 2000)
BatchDelay ==
  /\ bpc = "delay"
  /\ UNCHANGED notBatch
  /\ \E d \in randomDelay(requestDelay, requestDelay + BatchDelaySpread) :
       bSlept' = Append(bSlept, d)
  /\ bIdx' = bIdx + 1
  /\ bpc' = "loop"
  /\ UNCHANGED <<nReq, requestDelay, allJobs, outcomes, bOut>>

\* return allJobs
BatchReturn ==
  /\ bpc = "loop"
  /\ UNCHANGED notBatch
  /\ bIdx > nReq
  /\ bOut' = [kind |-> "returned", err |-> NoError, jobs |-> allJobs]
  /\ bpc' = "done"
  /\ UNCHANGED <<nReq, requestDelay, bIdx, allJobs, outcomes, bSlept>>

BatchNext ==
  \/ BatchRequest
  \/ BatchDelay
  \/ BatchReturn

\* ------------------------------------- validation and sanitization of a list
Chars == {" ", "a"}

\* a field value: absent, or a string of at most MaxStrLen characters
StrVals == {Undefined} \cup SeqsUpTo(Chars, MaxStrLen)

IdVals == {Undefined, <<>>, <<"1">>}

\* the fields sanitizeJobData trims before defaulting them
TrimmedFields ==
  {"title", "company", "location", "date", "description", "salary", "jobType",
   "experienceLevel"}

\* the fields sanitizeJobData defaults without trimming
LinkFields == {"link", "companyLink", "companyImgLink", "applyLink"}

\* a scraped record: id, title and company as given; every other field holds rest
RawJob(id, title, company, rest) ==
  [f \in JobFields |->
     IF f = "id" THEN id
     ELSE IF f = "title" THEN title
     ELSE IF f = "company" THEN company
     ELSE rest]

\* a record every check accepts
GoodJob == RawJob(<<"9">>, <<"a">>, <<"a">>, <<"a">>)

\* a record whose title is white space
BadJob == RawJob(<<"8">>, <<" ">>, <<"a">>, <<"a">>)

SanInit ==
  /\ vpc = "scraped"
  /\ vOut = <<>>
  /\ vAgain = <<>>
  /\ \E id \in IdVals : \E title \in StrVals : \E company \in StrVals : \E rest \in StrVals :
       LET r == RawJob(id, title, company, rest)
       IN  rawIn \in {<<r>>, <<r, GoodJob>>, <<GoodJob, r>>, <<BadJob, r>>}

SanIdle ==
  /\ vpc = "off"
  /\ rawIn = <<>>
  /\ vOut = <<>>
  /\ vAgain = <<>>

\* const validJobs = jobs.filter(isValidJobData).map(sanitizeJobData)
SanitizeList ==
  /\ vpc = "scraped"
  /\ UNCHANGED notSan
  /\ vOut' = ValidateAndSanitize(rawIn)
  /\ vpc' = "returned"
  /\ UNCHANGED <<rawIn, vAgain>>

\* the records returned are sanitized again: validJobs.map(sanitizeJobData)
SanitizeAgain ==
  /\ vpc = "returned"
  /\ UNCHANGED notSan
  /\ vAgain' = [i \in 1..Len(vOut) |-> sanitizeJobData(vOut[i])]
  /\ vpc' = "resanitized"
  /\ UNCHANGED <<rawIn, vOut>>

SanNext ==
  \/ SanitizeList
  \/ SanitizeAgain

\* ---------------------------------------------------- getScrapedJobsHandler
\* a legacy record as runJobScraper returns it: posting id, and one of the URL
\* forms under which the site links the posting
ScrapedJob(id, form) ==
  LegacyJob([CardJob(<<id>>, <<"t">>, <<"c">>) EXCEPT !.link = <<"h", id, form>>])

\* normalizeJobData maps one scraped record to the canonical schema
NormalizeJob(job) ==
  [job_id |-> job.id, jobUrl |-> job.link, position |-> job.title,
   company |-> job.company, location |-> job.location, date |-> job.date]

\* normalizeJobData(result)
normalizeJobData(list) == [i \in 1..Len(list) |-> NormalizeJob(list[i])]

ScrapedJobs == {ScrapedJob(id, form) : id \in {"1", "2"}, form \in {"x", "y"}}

\* the index of the last record with the id, not of the first
FindLastIndexFrom(list, id, i) ==
  LET at == {k \in i..Len(list) : list[k].job_id = id}
  IN  IF at = {} THEN 0 ELSE CHOOSE k \in at : \A m \in at : m <= k

\* self.findIndex((j) => j.job_id === job.job_id)
RECURSIVE FindIndexFrom(_, _, _)
FindIndexFrom(list, id, i) ==
  IF i > Len(list) THEN 0
  ELSE IF list[i].job_id = id THEN i
  ELSE FindIndexFrom(list, id, i + 1)

\* normalized.filter((job, index, self) => index === self.findIndex(...))
DedupById(list) ==
  LET keep == {i \in 1..Len(list) : FindIndexFrom(list, list[i].job_id, 1) = i}
      F[i \in 0..Len(list)] ==
        IF i = 0 THEN <<>>
        ELSE IF i \in keep THEN Append(F[i - 1], list[i]) ELSE F[i - 1]
  IN  F[Len(list)]

\* jobsFromDB.find((jobFromDB) => job.jobUrl === jobFromDB.jobUrl) found something
InSnapshot(job, db) == \E k \in 1..Len(db) : job.jobUrl = db[k].jobUrl

\* uniqueJobs.filter((job) => !jobsFromDB.find(...))
NotPersisted(list, db) ==
  LET F[i \in 0..Len(list)] ==
        IF i = 0 THEN <<>>
        ELSE IF ~InSnapshot(list[i], db) THEN Append(F[i - 1], list[i]) ELSE F[i - 1]
  IN  F[Len(list)]

HandlerInit ==
  /\ hpc = "scrape"
  /\ jobsFromDB \in SeqsUpTo({NormalizeJob(j) : j \in ScrapedJobs}, MaxHandlerJobs)
  /\ scraped = <<>>
  /\ uniqueJobs = <<>>
  /\ uploaded = <<>>
  /\ response = "none"

HandlerIdle ==
  /\ hpc = "off"
  /\ jobsFromDB = <<>>
  /\ scraped = <<>>
  /\ uniqueJobs = <<>>
  /\ uploaded = <<>>
  /\ response = "none"

\* const result = await runJobScraper(...): a list, or the handler fails with
\* the scraper's error
HandlerScrape ==
  /\ hpc = "scrape"
  /\ UNCHANGED notHandler
  /\ \/ \E r \in SeqsUpTo(ScrapedJobs, MaxHandlerJobs) :
          /\ scraped' = r
          /\ hpc' = "filter"
          /\ UNCHANGED response
     \/ /\ response' = "error"
        /\ hpc' = "done"
        /\ UNCHANGED scraped
  /\ UNCHANGED <<jobsFromDB, uniqueJobs, uploaded>>

\* normalization, de-duplication by job_id, the filter against the snapshot and
\* the upload
HandlerFilterUpload ==
  /\ hpc = "filter"
  /\ UNCHANGED notHandler
  /\ LET unique == DedupById(normalizeJobData(scraped))
         fresh == NotPersisted(unique, jobsFromDB)
     IN  /\ uniqueJobs' = unique
         /\ IF Len(jobsFromDB) > 0 /\ Len(unique) > 0
              THEN IF Len(fresh) > 0
                     THEN /\ uploaded' = fresh
                          /\ response' = "uploaded"
                     ELSE /\ uploaded' = <<>>
                          /\ response' = "nothing new"
              ELSE IF Len(unique) > 0
                     THEN /\ uploaded' = unique
                          /\ response' = "uploaded"
                     ELSE /\ uploaded' = <<>>
                          /\ response' = "nothing new"
  /\ hpc' = "done"
  /\ UNCHANGED <<jobsFromDB, scraped>>

HandlerNext ==
  \/ HandlerScrape
  \/ HandlerFilterUpload

\* ---------------------------------------------- scrapeJobsWithDescriptions
\* the validated records a listing scrape can return
ListingJobs ==
  {sanitizeJobData(CardJob(<<"1">>, <<"t">>, <<"c">>)),
   sanitizeJobData(CardJob(<<"3">>, <<"u">>, <<"c">>))}

\* what getJobDescription can return: a text, or "" when the page has none
Descriptions == {<<"d">>, <<>>}

\* the fetch of a description failed
FetchFailed == <<"failed">>

\* jobsWithDescriptions.push({ ...job, description })
PushWithDescription(list, job, description) ==
  Append(list, [job EXCEPT !.description = description])

\* a loop that skips the record whose description could not be fetched
SkipWithoutDescription(list, job) == list

\* catch (error) { ...; jobsWithDescriptions.push(job) }
PushWithoutDescription(list, job) == Append(list, job)

DescInit ==
  /\ enableDesc \in BOOLEAN
  /\ listing = <<>>
  /\ dIdx = 1
  /\ dpc = "listing"
  /\ jobsWithDescriptions = <<>>
  /\ fetches = <<>>
  /\ dOut = NoOut

DescIdle ==
  /\ enableDesc = FALSE
  /\ listing = <<>>
  /\ dIdx = 1
  /\ dpc = "off"
  /\ jobsWithDescriptions = <<>>
  /\ fetches = <<>>
  /\ dOut = NoOut

\* the listing scrape: this.scrapeJobsWithRetry(params) returns its list, which
\* is the result when description scraping is off, or raises
DescListing ==
  /\ dpc = "listing"
  /\ UNCHANGED notDesc
  /\ \/ \E l \in SeqsUpTo(ListingJobs, MaxListing) :
          /\ listing' = l
          /\ IF enableDesc
               THEN /\ dpc' = "fetch"
                    /\ UNCHANGED dOut
               ELSE /\ dpc' = "done"
                    /\ dOut' = [kind |-> "returned", err |-> NoError, jobs |-> l]
     \/ \E e \in {RateLimitError, OtherError} :
          /\ dOut' = [kind |-> "raised", err |-> e, jobs |-> <<>>]
          /\ dpc' = "done"
          /\ UNCHANGED listing
  /\ UNCHANGED <<enableDesc, dIdx, jobsWithDescriptions, fetches>>

\* one pass of for (const job of jobs): the description is fetched and the
\* record pushed with it, or the fetch throws and the record is pushed as it is
DescFetch ==
  /\ dpc = "fetch"
  /\ UNCHANGED notDesc
  /\ dIdx <= Len(listing)
  /\ \/ \E d \in Descriptions :
          /\ jobsWithDescriptions' =
               PushWithDescription(jobsWithDescriptions, listing[dIdx], d)
          /\ fetches' = Append(fetches, d)
     \/ /\ jobsWithDescriptions' =
             PushWithoutDescription(jobsWithDescriptions, listing[dIdx])
        /\ fetches' = Append(fetches, FetchFailed)
  /\ dIdx' = dIdx + 1
  /\ UNCHANGED <<enableDesc, listing, dpc, dOut>>

\* return jobsWithDescriptions
DescReturn ==
  /\ dpc = "fetch"
  /\ UNCHANGED notDesc
  /\ dIdx > Len(listing)
  /\ dOut' = [kind |-> "returned", err |-> NoError, jobs |-> jobsWithDescriptions]
  /\ dpc' = "done"
  /\ UNCHANGED <<enableDesc, listing, dIdx, jobsWithDescriptions, fetches>>

DescNext ==
  \/ DescListing
  \/ DescFetch
  \/ DescReturn

\* ------------------------------------------------------- calculateRetryDelay
\* the values of Math.random() * 1000 explored, in whole milliseconds
JitterSamples == {0, 1, 500, 998, 999}

DelayInit ==
  /\ rAttempt \in 0..MaxAttemptIndex
  /\ rJitter \in JitterSamples
  /\ rpc = "call"
  /\ rDelay = 0

DelayIdle ==
  /\ rAttempt = 0
  /\ rJitter = 0
  /\ rpc = "off"
  /\ rDelay = 0

\* return delay + jitter
CalculateDelay ==
  /\ rpc = "call"
  /\ UNCHANGED notDelay
  /\ rDelay' = calculateRetryDelay(rAttempt, rJitter)
  /\ rpc' = "returned"
  /\ UNCHANGED <<rAttempt, rJitter>>

DelayNext == CalculateDelay

\* ------------------------------------------------- close() of the drivers
\* close() that leaves the handle as it was
HandleKeptByClose(h) == h

\* this.context = null (this.browser = null) at the end of close()
HandleAfterClose(h) == NoCtx

\* the fields of the driver object and its sessions
DriverState == [context |-> kContext, browser |-> kBrowser, live |-> kLive]

\* AuthenticatedLinkedInScraper.contextAlive()
contextAlive == kContext # NoCtx /\ kContext \in kLive /\ kBrowserOf

\* whether close() calls close on a session: CustomLinkedInScraper tests
\* this.context, AuthenticatedLinkedInScraper contextAlive(), and
\* SimpleLinkedInScraper this.context and this.browser (one session)
CloseReaches ==
  IF kKind = "authenticated" THEN contextAlive
  ELSE IF kKind = "custom" THEN kContext # NoCtx
  ELSE kBrowser # NoCtx

\* the session close() reaches
SessionOf == IF kKind = "simple" THEN kBrowser ELSE kContext

DriverInit ==
  /\ kKind \in {"custom", "authenticated", "simple"}
  /\ kBrowserOf \in BOOLEAN
  /\ kContext = NoCtx
  /\ kBrowser = NoCtx
  /\ kLive = {}
  /\ kNext = 1
  /\ kRaised = FALSE
  /\ kOps = <<>>
  /\ kPrev = [context |-> NoCtx, browser |-> NoCtx, live |-> {}]

DriverIdle ==
  /\ kKind = "off"
  /\ kBrowserOf = FALSE
  /\ kContext = NoCtx
  /\ kBrowser = NoCtx
  /\ kLive = {}
  /\ kNext = 1
  /\ kRaised = FALSE
  /\ kOps = <<>>
  /\ kPrev = [context |-> NoCtx, browser |-> NoCtx, live |-> {}]

\* initialize(): CustomLinkedInScraper and AuthenticatedLinkedInScraper close
\* first, SimpleLinkedInScraper does not; then the launch succeeds or throws
DriverInitialize ==
  /\ kKind # "off"
  /\ UNCHANGED notDriver
  /\ Len(kOps) < MaxOps
  /\ kPrev' = DriverState
  /\ LET closed == IF kKind # "simple" /\ CloseReaches THEN kLive \ {kContext} ELSE kLive
     IN  \/ /\ kContext' = kNext
            /\ kBrowser' = (IF kKind = "simple" THEN kNext ELSE NoCtx)
            /\ kLive' = closed \cup {kNext}
            /\ kNext' = kNext + 1
            /\ kRaised' = FALSE
            /\ kOps' = Append(kOps, "initialize")
         \/ /\ kContext' = (IF kKind = "simple" THEN kContext ELSE NoCtx)
            /\ kLive' = closed
            /\ kRaised' = TRUE
            /\ kOps' = Append(kOps, "initializeFailed")
            /\ UNCHANGED <<kBrowser, kNext>>
  /\ UNCHANGED <<kKind, kBrowserOf>>

\* a live session ends on its own; the 'close' listener of CustomLinkedInScraper
\* and AuthenticatedLinkedInScraper clears this.context, SimpleLinkedInScraper
\* has no listener
DriverSessionEnds ==
  /\ kKind # "off"
  /\ UNCHANGED notDriver
  /\ Len(kOps) < MaxOps
  /\ kPrev' = DriverState
  /\ \E x \in kLive : kLive' = kLive \ {x}
  /\ kContext' = (IF kKind = "simple" THEN kContext ELSE NoCtx)
  /\ kOps' = Append(kOps, "ended")
  /\ UNCHANGED <<kKind, kBrowserOf, kBrowser, kNext, kRaised>>

\* close(): the session the handle names is closed, if the test of the handle
\* passes; an error thrown by the session's close is caught and logged; the
\* handles are cleared
DriverClose ==
  /\ kKind # "off"
  /\ UNCHANGED notDriver
  /\ Len(kOps) < MaxOps
  /\ kPrev' = DriverState
  /\ \/ kLive' = (IF CloseReaches THEN kLive \ {SessionOf} ELSE kLive)
     \/ CloseReaches /\ kLive' = kLive
  /\ kContext' = HandleAfterClose(kContext)
  /\ kBrowser' = HandleAfterClose(kBrowser)
  /\ kRaised' = FALSE
  /\ kOps' = Append(kOps, "close")
  /\ UNCHANGED <<kKind, kBrowserOf, kNext>>

DriverNext ==
  \/ DriverInitialize
  \/ DriverSessionEnds
  \/ DriverClose

\* ------------------------------------------------- the entry of scrapeJobs
\* scrapeJobs of CustomLinkedInScraper and of AuthenticatedLinkedInScraper up to
\* the page it scrapes on, called MaxScrapeCalls times on one driver object.
\* The 'close' listener runs when the event loop handles the event: while an
\* operation on the session is awaited, never between an async function that
\* returns and the continuation of its caller.

\* ensureBrowserReady() passes without initialize(): CustomLinkedInScraper tests
\* this.context, AuthenticatedLinkedInScraper contextAlive()
HandleReady ==
  IF eKind = "custom" THEN eContext # NoCtx
  ELSE eContext # NoCtx /\ eContext \in eLive /\ eBrowserOf

\* the sessions left by close(): both drivers close the session only when
\* their test of the handle passes
AfterClose == IF HandleReady THEN eLive \ {eContext} ELSE eLive

\* initialize(): close(), then launchPersistentContext resolves (handle set,
\* listener registered) or rejects (the error is rethrown)
Initialize(ok) ==
  IF ok
    THEN /\ eContext' = eNext
         /\ eLive' = AfterClose \cup {eNext}
         /\ eNext' = eNext + 1
         /\ UNCHANGED eFails
    ELSE /\ eFails < MaxLaunchFailures
         /\ eContext' = NoCtx
         /\ eLive' = AfterClose
         /\ eFails' = eFails + 1
         /\ UNCHANGED eNext

EnsureInit ==
  /\ eKind \in {"custom", "authenticated"}
  /\ eBrowserOf \in (IF eKind = "custom" THEN {TRUE} ELSE BOOLEAN)
  /\ eCreds \in (IF eKind = "custom" THEN {TRUE} ELSE BOOLEAN)
  /\ eContext \in {NoCtx, 1}
  /\ eLive = (IF eContext = NoCtx THEN {} ELSE {1})
  /\ eNext = 2
  /\ eFails = 0
  /\ eCalls = 1
  /\ epc = "call"
  /\ eOpens = <<>>
  /\ eOut = "none"

EnsureIdle ==
  /\ eKind = "off"
  /\ eBrowserOf = FALSE
  /\ eCreds = FALSE
  /\ eContext = NoCtx
  /\ eLive = {}
  /\ eNext = 1
  /\ eFails = 0
  /\ eCalls = 0
  /\ epc = "off"
  /\ eOpens = <<>>
  /\ eOut = "none"

\* await this.ensureBrowserReady(), first statement of scrapeJobs and, in
\* AuthenticatedLinkedInScraper, of login() once the credentials are there
EnsureBrowserReady ==
  /\ epc \in {"call", "loginEnsure"}
  /\ UNCHANGED notEnsure
  /\ IF HandleReady
       THEN /\ epc' = (IF epc = "loginEnsure" \/ eKind = "custom" THEN "newPage" ELSE "login")
            /\ UNCHANGED <<eContext, eLive, eNext, eFails, eOut>>
       ELSE \/ /\ Initialize(TRUE)
               /\ epc' = (IF epc = "loginEnsure" \/ eKind = "custom" THEN "newPage" ELSE "login")
               /\ UNCHANGED eOut
            \/ /\ Initialize(FALSE)
               /\ eOut' = "launchError"
               /\ epc' = "ended"
  /\ UNCHANGED <<eKind, eBrowserOf, eCreds, eCalls, eOpens>>

\* login(): if (!this.config.email || !this.config.password) return false, and
\* scrapeJobs: if (!loginSuccess) throw new Error("LinkedIn login failed.")
LoginEnter ==
  /\ epc = "login"
  /\ UNCHANGED notEnsure
  /\ IF eCreds
       THEN epc' = "loginEnsure" /\ UNCHANGED eOut
       ELSE epc' = "ended" /\ eOut' = "loginFailed"
  /\ UNCHANGED <<eKind, eBrowserOf, eCreds, eContext, eLive, eNext, eFails, eCalls, eOpens>>

\* const page = await this.context!.newPage() of login() (right after its
\* ensureBrowserReady) and page = await this.context!.newPage() of scrapeJobs
\* (CustomLinkedInScraper: right after ensureBrowserReady;
\* AuthenticatedLinkedInScraper: after login() returned true)
NewPage ==
  /\ epc \in {"newPage", "scrapePage"}
  /\ UNCHANGED notEnsure
  /\ eOpens' = Append(eOpens, [by |-> (IF epc = "newPage" /\ eKind = "authenticated"
                                          THEN "login" ELSE "scrapeJobs"),
                               handle |-> eContext,
                               live |-> eContext \in eLive])
  /\ IF eContext = NoCtx
       THEN epc' = "ended" /\ eOut' = "typeError"
       ELSE /\ epc' = (IF epc = "newPage" /\ eKind = "authenticated" THEN "loginBody" ELSE "body")
            /\ UNCHANGED eOut
  /\ UNCHANGED <<eKind, eBrowserOf, eCreds, eContext, eLive, eNext, eFails, eCalls>>

\* the try block of login(): any page operation that throws makes it return
\* false (as does a session that ended under it), otherwise it returns true
LoginBody ==
  /\ epc = "loginBody"
  /\ UNCHANGED notEnsure
  /\ \/ epc' = "ended" /\ eOut' = "loginFailed"
     \/ eContext # NoCtx /\ epc' = "loginClose" /\ UNCHANGED eOut
  /\ UNCHANGED <<eKind, eBrowserOf, eCreds, eContext, eLive, eNext, eFails, eCalls, eOpens>>

\* finally { if (!page.isClosed()) await page.close() } of login(), returning
\* true to scrapeJobs; page.close() on a session that ends meanwhile resolves
LoginClose ==
  /\ epc = "loginClose"
  /\ UNCHANGED notEnsure
  /\ epc' = "scrapePage"
  /\ UNCHANGED <<eKind, eBrowserOf, eCreds, eContext, eLive, eNext, eFails, eCalls,
                 eOpens, eOut>>

\* the rest of the try block of scrapeJobs: it returns, or throws; a session
\* that ended under it throws the crash error, whose catch runs initialize()
ScrapeEnd ==
  /\ epc = "body"
  /\ UNCHANGED notEnsure
  /\ epc' = "ended"
  /\ IF eContext = NoCtx
       THEN \/ Initialize(TRUE) /\ eOut' = "crashError"
            \/ Initialize(FALSE) /\ eOut' = "launchError"
       ELSE /\ eOut' \in {"returned", "otherError"}
            /\ UNCHANGED <<eContext, eLive, eNext, eFails>>
  /\ UNCHANGED <<eKind, eBrowserOf, eCreds, eCalls, eOpens>>

\* the caller calls scrapeJobs again on the same driver object
ScrapeAgain ==
  /\ epc = "ended"
  /\ UNCHANGED notEnsure
  /\ eCalls < MaxScrapeCalls
  /\ eCalls' = eCalls + 1
  /\ epc' = "call"
  /\ UNCHANGED <<eKind, eBrowserOf, eCreds, eContext, eLive, eNext, eFails, eOpens, eOut>>

\* a session of this driver object ends on its own while an operation is
\* awaited, or between two calls: its 'close' listener clears this.context
EnsureSessionEnds ==
  /\ epc \in {"loginBody", "loginClose", "body", "ended"}
  /\ UNCHANGED notEnsure
  /\ \E x \in eLive : eLive' = eLive \ {x}
  /\ eContext' = NoCtx
  /\ UNCHANGED <<eKind, eBrowserOf, eCreds, eNext, eFails, eCalls, epc, eOpens, eOut>>

EnsureNext ==
  \/ EnsureBrowserReady
  \/ LoginEnter
  \/ NewPage
  \/ LoginBody
  \/ LoginClose
  \/ ScrapeEnd
  \/ ScrapeAgain
  \/ EnsureSessionEnds

\* --------------------------- AuthenticatedLinkedInScraper.initialize, guarded
\* initialize() of one AuthenticatedLinkedInScraper called by up to MaxCallers
\* callers whose calls overlap; a call is suspended at await this.close() and
\* at await chromium.launchPersistentContext(...)

Callers == 1..MaxCallers

\* initialize() that launches whatever the flag says
GuardIgnored(flag) == FALSE

\* if (this.isInitializing) return
GuardReturns(flag) == flag

GuardInit ==
  /\ isInitializing = FALSE
  /\ gBrowserOf \in BOOLEAN
  /\ gContext = NoCtx
  /\ gLive = {}
  /\ gNext = 1
  /\ gpc = [c \in Callers |-> "out"]
  /\ gCalls = 0
  /\ gSkipped = 0
  /\ gDone = <<>>

GuardIdle ==
  /\ isInitializing = FALSE
  /\ gBrowserOf = FALSE
  /\ gContext = NoCtx
  /\ gLive = {}
  /\ gNext = 1
  /\ gpc = <<>>
  /\ gCalls = 0
  /\ gSkipped = 0
  /\ gDone = <<>>

\* a caller enters initialize(): the guard, then this.isInitializing = true and
\* the call of this.close()
GuardEnter(c) ==
  /\ c \in DOMAIN gpc
  /\ gpc[c] = "out"
  /\ UNCHANGED notGuard
  /\ gCalls < MaxInitCalls
  /\ gCalls' = gCalls + 1
  /\ IF GuardReturns(isInitializing)
       THEN /\ gSkipped' = gSkipped + 1
            /\ UNCHANGED <<isInitializing, gpc>>
       ELSE /\ isInitializing' = TRUE
            /\ gpc' = [gpc EXCEPT ![c] = "close"]
            /\ UNCHANGED gSkipped
  /\ UNCHANGED <<gBrowserOf, gContext, gLive, gNext, gDone>>

\* await this.close() returns: the session is closed if contextAlive(), the
\* handle cleared; then chromium.launchPersistentContext(...) is called
GuardClose(c) ==
  /\ c \in DOMAIN gpc
  /\ gpc[c] = "close"
  /\ UNCHANGED notGuard
  /\ gLive' = (IF gContext # NoCtx /\ gContext \in gLive /\ gBrowserOf
                 THEN gLive \ {gContext} ELSE gLive)
  /\ gContext' = NoCtx
  /\ gpc' = [gpc EXCEPT ![c] = "launch"]
  /\ UNCHANGED <<isInitializing, gBrowserOf, gNext, gCalls, gSkipped, gDone>>

\* the launch resolves (handle set, listener registered) or rejects (catch:
\* throw error); finally { this.isInitializing = false }
GuardLaunchEnds(c) ==
  /\ c \in DOMAIN gpc
  /\ gpc[c] = "launch"
  /\ UNCHANGED notGuard
  /\ \/ /\ gContext' = gNext
        /\ gLive' = gLive \cup {gNext}
        /\ gNext' = gNext + 1
        /\ gDone' = Append(gDone, "ok")
     \/ /\ gDone' = Append(gDone, "failed")
        /\ UNCHANGED <<gContext, gLive, gNext>>
  /\ isInitializing' = FALSE
  /\ gpc' = [gpc EXCEPT ![c] = "out"]
  /\ UNCHANGED <<gBrowserOf, gCalls, gSkipped>>

\* a session of this driver object ends on its own: its listener clears the handle
GuardSessionEnds ==
  /\ gpc # <<>>
  /\ UNCHANGED notGuard
  /\ \E x \in gLive : gLive' = gLive \ {x}
  /\ gContext' = NoCtx
  /\ UNCHANGED <<isInitializing, gBrowserOf, gNext, gpc, gCalls, gSkipped, gDone>>

GuardNext ==
  \/ \E c \in Callers : GuardEnter(c)
  \/ \E c \in Callers : GuardClose(c)
  \/ \E c \in Callers : GuardLaunchEnds(c)
  \/ GuardSessionEnds

\* ------------------------------------------------ the page loop by URL offset
\* AuthenticatedLinkedInScraper.scrapeJobs from its first navigation on. A URL
\* is its start parameter; a record is its id.

\* Math.ceil(targetLimit / pageSize), one page too many
TargetPagesPlusOne(lim, size) == lim \div size + 1

\* const targetPages = Math.ceil(targetLimit / pageSize)
TargetPagesOf(lim, size) == (lim + size - 1) \div size

\* u.searchParams.set("start", String(Math.max(0, startVal)))
withStartParam(url, startVal) == IF startVal < 0 THEN 0 ELSE startVal

\* getStartParam(currentUrl) ?? 0
getStartParam(url) == url

\* the next start offset, counted from 0 whatever the current URL
NextStartFromZero(url, size) == size

\* const nextStart = currentStart + pageSize
NextStart(url, size) == getStartParam(url) + size

\* the cards the site serves at a start offset: one posting per position
\* ("fresh"), the same first page whatever the offset ("same"), a list shifted
\* by one posting since the page before ("shifted"), one card more than the
\* page size ("long"), each card twice ("twice"), or one card a page ("sparse")
Sites == {"fresh", "same", "shifted", "long", "twice", "sparse"}

RECURSIVE IdsFrom(_, _)
IdsFrom(first, n) == IF n = 0 THEN <<>> ELSE <<first>> \o IdsFrom(first + 1, n - 1)

PageCards(s, start, size) ==
  IF s = "fresh" THEN IdsFrom(start + 1, size)
  ELSE IF s = "same" THEN IdsFrom(1, size)
  ELSE IF s = "shifted" THEN IdsFrom((IF start = 0 THEN 1 ELSE start), size)
  ELSE IF s = "long" THEN IdsFrom(start + 1, size + 1)
  ELSE IF s = "sparse" THEN IdsFrom(start + 1, 1)
  ELSE IdsFrom(start + 1, size) \o IdsFrom(start + 1, size)

\* extractJobsFromPage of AuthenticatedLinkedInScraper: cards.forEach with its
\* seen set, which lives for one call
RECURSIVE SeenFilter(_, _)
SeenFilter(cards, seen) ==
  IF cards = <<>> THEN <<>>
  ELSE IF Head(cards) \in seen THEN SeenFilter(Tail(cards), seen)
  ELSE <<Head(cards)>> \o SeenFilter(Tail(cards), seen \cup {Head(cards)})

UrlNoOut == [kind |-> "none", jobs |-> <<>>, why |-> "none"]

UrlInit ==
  /\ \/ /\ uLimit \in 1..MaxUrlLimit
        /\ pageSize \in 1..2
        /\ startPage \in 0..2
        /\ site \in Sites
     \/ /\ uLimit = DeepLimit
        /\ pageSize = 1
        /\ startPage = 1
        /\ site \in {"fresh", "same"}
  /\ upc = "open"
  /\ currentPage = 0
  /\ currentUrl = 0
  /\ uJobs = <<>>
  /\ slowScrolls = 0
  /\ starts = <<>>
  /\ passes = 0
  /\ uOut = UrlNoOut

UrlIdle ==
  /\ uLimit = 0
  /\ pageSize = 0
  /\ startPage = 0
  /\ site = "off"
  /\ upc = "off"
  /\ currentPage = 0
  /\ currentUrl = 0
  /\ uJobs = <<>>
  /\ slowScrolls = 0
  /\ starts = <<>>
  /\ passes = 0
  /\ uOut = UrlNoOut

\* currentUrl = withStartParam(baseUrl, (startPage - 1) * pageSize), page.goto
\* and the wait for [data-job-id]: a failure here leaves through the outer catch
UrlOpen ==
  /\ upc = "open"
  /\ UNCHANGED notUrl
  /\ currentUrl' = withStartParam(0, (startPage - 1) * pageSize)
  /\ \/ /\ starts' = <<currentUrl'>>
        /\ currentPage' = startPage
        /\ upc' = "for"
        /\ UNCHANGED uOut
     \/ /\ upc' = "done"
        /\ uOut' = [kind |-> "raised", jobs |-> <<>>, why |-> "open"]
        /\ UNCHANGED <<starts, currentPage>>
  /\ UNCHANGED <<uLimit, pageSize, startPage, site, uJobs, slowScrolls, passes>>

\* for (currentPage = startPage; currentPage < startPage + targetPages; ...);
\* after the loop: return jobs
UrlLoopTest ==
  /\ upc = "for"
  /\ UNCHANGED notUrl
  /\ IF currentPage < startPage + TargetPagesOf(uLimit, pageSize)
       THEN /\ passes' = passes + 1
            /\ slowScrolls' = 0
            /\ upc' = "slowScroll"
            /\ UNCHANGED uOut
       ELSE /\ upc' = "done"
            /\ uOut' = [kind |-> "returned", jobs |-> uJobs, why |-> "pages"]
            /\ UNCHANGED <<passes, slowScrolls>>
  /\ UNCHANGED <<uLimit, pageSize, startPage, site, currentPage, currentUrl, uJobs, starts>>

\* slowScrollToLoadJobs: while (scrollAttempts < maxScrollAttempts) { if
\* (paginationVisible) break; scroll; scrollAttempts++ }; a page operation that
\* throws is caught and ends the scrolling
SlowScrollStep ==
  /\ upc = "slowScroll"
  /\ UNCHANGED notUrl
  /\ IF slowScrolls < MaxSlowScrolls
       THEN \/ upc' = "extract" /\ UNCHANGED slowScrolls
            \/ slowScrolls' = slowScrolls + 1 /\ UNCHANGED upc
       ELSE upc' = "extract" /\ UNCHANGED slowScrolls
  /\ UNCHANGED <<uLimit, pageSize, startPage, site, currentPage, currentUrl, uJobs,
                 starts, passes, uOut>>

\* const newJobs = await this.extractJobsFromPage(page); jobs.push(...newJobs
\* .slice(0, remainingSlots)); if (jobs.length >= targetLimit) break; an
\* extraction that throws leaves through the outer catch
UrlExtract ==
  /\ upc = "extract"
  /\ UNCHANGED notUrl
  /\ \/ LET newJobs == SeenFilter(PageCards(site, currentUrl, pageSize), {})
            remainingSlots == uLimit - Len(uJobs)
            all == IF remainingSlots > 0
                     THEN uJobs \o Slice(newJobs, remainingSlots) ELSE uJobs
        IN  /\ uJobs' = all
            /\ IF Len(all) >= uLimit
                 THEN /\ upc' = "done"
                      /\ uOut' = [kind |-> "returned", jobs |-> all, why |-> "limit"]
                 ELSE /\ upc' = "next"
                      /\ UNCHANGED uOut
     \/ /\ upc' = "done"
        /\ uOut' = [kind |-> "raised", jobs |-> <<>>, why |-> "extract"]
        /\ UNCHANGED uJobs
  /\ UNCHANGED <<uLimit, pageSize, startPage, site, currentPage, currentUrl, slowScrolls,
                 starts, passes>>

\* nextUrl = withStartParam(currentUrl, currentStart + pageSize); try { goto,
\* waitForSelector; currentUrl = nextUrl } catch { break }; currentPage++
UrlNextPage ==
  /\ upc = "next"
  /\ UNCHANGED notUrl
  /\ LET nextUrl == withStartParam(currentUrl, NextStart(currentUrl, pageSize))
     IN  /\ starts' = Append(starts, nextUrl)
         /\ \/ /\ currentUrl' = nextUrl
               /\ currentPage' = currentPage + 1
               /\ upc' = "for"
               /\ UNCHANGED uOut
            \/ /\ upc' = "done"
               /\ uOut' = [kind |-> "returned", jobs |-> uJobs, why |-> "navigation"]
               /\ UNCHANGED <<currentUrl, currentPage>>
  /\ UNCHANGED <<uLimit, pageSize, startPage, site, uJobs, slowScrolls, passes>>

UrlNext ==
  \/ UrlOpen
  \/ UrlLoopTest
  \/ SlowScrollStep
  \/ UrlExtract
  \/ UrlNextPage

\* ------------------- EnhancedLinkedInScraper.waitForRateLimit, overlapping calls
\* the description loop of scrapeJobsWithDescriptions run by up to MaxCallers
\* calls on one EnhancedLinkedInScraper; a call is suspended inside
\* waitForRateLimit() and at await this.scraper.getJobDescription(job.link)

\* this.config.maxConcurrentRequests || 3
ConcurrencyCap(m) == IF m = 0 THEN DefaultMaxConcurrent ELSE m

\* this.activeRequests >= (this.config.maxConcurrentRequests || 3)
MustWait(active, m) == active >= ConcurrencyCap(m)

RateInit ==
  /\ enableRateLimiting \in BOOLEAN
  /\ maxConcurrentRequests \in 0..MaxFetches
  /\ activeRequests = 0
  /\ ratePc = [c \in Callers |-> "loop"]
  /\ rLeft \in [Callers -> 0..MaxFetches]
  /\ inFlight = 0
  /\ admitted = <<>>

RateIdle ==
  /\ enableRateLimiting = FALSE
  /\ maxConcurrentRequests = 0
  /\ activeRequests = 0
  /\ ratePc = <<>>
  /\ rLeft = <<>>
  /\ inFlight = 0
  /\ admitted = <<>>

\* one pass of for (const job of jobs) up to the fetch: waitForRateLimit()
\* (first test, or a tick of its setInterval), then getJobDescription is called
RateAdmit(c) ==
  /\ c \in DOMAIN ratePc
  /\ ratePc[c] \in {"loop", "waiting"}
  /\ rLeft[c] > 0
  /\ UNCHANGED notRate
  /\ IF enableRateLimiting /\ MustWait(activeRequests, maxConcurrentRequests)
       THEN /\ ratePc' = [ratePc EXCEPT ![c] = "waiting"]
            /\ UNCHANGED <<inFlight, admitted>>
       ELSE /\ ratePc' = [ratePc EXCEPT ![c] = "fetch"]
            /\ inFlight' = inFlight + 1
            /\ admitted' = Append(admitted, inFlight)
  /\ UNCHANGED <<enableRateLimiting, maxConcurrentRequests, activeRequests, rLeft>>

\* the fetch settles: push with the description, or the catch's push without
RateFetchEnds(c) ==
  /\ c \in DOMAIN ratePc
  /\ ratePc[c] = "fetch"
  /\ UNCHANGED notRate
  /\ inFlight' = inFlight - 1
  /\ rLeft' = [rLeft EXCEPT ![c] = @ - 1]
  /\ ratePc' = [ratePc EXCEPT ![c] = "loop"]
  /\ UNCHANGED <<enableRateLimiting, maxConcurrentRequests, activeRequests, admitted>>

RateNext ==
  \/ \E c \in Callers : RateAdmit(c)
  \/ \E c \in Callers : RateFetchEnds(c)

\* -------------------------------- getScrapedJobsHandler, two requests at once
\* two GET /jobs/get_and_upload requests whose handlers overlap: a handler is
\* suspended at the read of the persisted records, at the scrape and at the upload

Requests == {1, 2}

\* insertJobs(JobRecord[]) of the persistence store: the records are added
insertJobs(db, list) == db \o list

\* what the handler passes to uploadJobsFromLinkedInToDB: the scraped records
\* not found in its snapshot, or all of them when the snapshot is empty
ToUpload(result, snapshot) ==
  LET unique == DedupById(normalizeJobData(result))
  IN  IF Len(snapshot) > 0 /\ Len(unique) > 0
        THEN NotPersisted(unique, snapshot)
        ELSE unique

UploadInit ==
  /\ store \in SeqsUpTo({NormalizeJob(j) : j \in ScrapedJobs}, MaxStored)
  /\ qpc = [r \in Requests |-> "read"]
  /\ qSnapshot = [r \in Requests |-> <<>>]
  /\ qUploaded = [r \in Requests |-> <<>>]

UploadIdle ==
  /\ store = <<>>
  /\ qpc = <<>>
  /\ qSnapshot = <<>>
  /\ qUploaded = <<>>

\* const { data: jobsFromDB } = await getJobsFromLinkedinFromDB()
ReadSnapshot(r) ==
  /\ r \in DOMAIN qpc
  /\ qpc[r] = "read"
  /\ UNCHANGED notUpload
  /\ qSnapshot' = [qSnapshot EXCEPT ![r] = store]
  /\ qpc' = [qpc EXCEPT ![r] = "scrape"]
  /\ UNCHANGED <<store, qUploaded>>

\* the scrape returns or raises; normalization, de-duplication, the filter
\* against the snapshot and await uploadJobsFromLinkedInToDB(...)
ScrapeAndUpload(r) ==
  /\ r \in DOMAIN qpc
  /\ qpc[r] = "scrape"
  /\ UNCHANGED notUpload
  /\ \/ \E result \in SeqsUpTo(ScrapedJobs, MaxSharedJobs) :
          LET fresh == ToUpload(result, qSnapshot[r])
          IN  /\ qUploaded' = [qUploaded EXCEPT ![r] = fresh]
              /\ store' = insertJobs(store, fresh)
              /\ qpc' = [qpc EXCEPT ![r] = "done"]
     \/ /\ qpc' = [qpc EXCEPT ![r] = "failed"]
        /\ UNCHANGED <<store, qUploaded>>
  /\ UNCHANGED qSnapshot

UploadNext ==
  \/ \E r \in Requests : ReadSnapshot(r)
  \/ \E r \in Requests : ScrapeAndUpload(r)

\* ------------------------------------ ensureFreshTokens / refreshAccessToken
\* ensureFreshTokens(userId): the accounts found expired are refreshed by
\* refreshAccessToken calls running in parallel under Promise.all; a call is
\* suspended at the OAuth refresh, at getTokensFromSupabase and at
\* updateTokensInSupabase. A token is its generation: 0 as stored at the start,
\* 1 once refreshed

Accounts == 1..MaxAccounts

\* emailAccounts.map((account) => account.email === email ? {...account, new
\* credentials} : account)
WithRefreshed(accounts, a) == [accounts EXCEPT ![a] = 1]

\* the list ensureFreshTokens writes at its end: tokens as read at its start,
\* with the new credentials of every account it refreshed
RefreshedTokens(exp) == [a \in Accounts |-> IF a \in exp THEN 1 ELSE 0]

TokenInit ==
  /\ tokenStore = [a \in Accounts |-> 0]
  /\ expired \in SUBSET Accounts
  /\ tpc = [a \in Accounts |-> IF a \in expired THEN "oauth" ELSE "fresh"]
  /\ emailAccounts = [a \in Accounts |-> <<>>]
  /\ epcTokens = "all"

TokenIdle ==
  /\ tokenStore = <<>>
  /\ expired = {}
  /\ tpc = <<>>
  /\ emailAccounts = <<>>
  /\ epcTokens = "off"

\* const { credentials } = await clientForRefresh.refreshAccessToken(): new
\* credentials, or an error that the catch turns into "Failed to refresh access token"
OAuthRefresh(a) ==
  /\ a \in DOMAIN tpc
  /\ tpc[a] = "oauth"
  /\ UNCHANGED notToken
  /\ \E next \in {"read", "failed"} : tpc' = [tpc EXCEPT ![a] = next]
  /\ UNCHANGED <<tokenStore, expired, emailAccounts, epcTokens>>

\* const emailAccounts = await getTokensFromSupabase(userId)
ReadAccounts(a) ==
  /\ a \in DOMAIN tpc
  /\ tpc[a] = "read"
  /\ UNCHANGED notToken
  /\ emailAccounts' = [emailAccounts EXCEPT ![a] = tokenStore]
  /\ tpc' = [tpc EXCEPT ![a] = "write"]
  /\ UNCHANGED <<tokenStore, expired, epcTokens>>

\* await updateTokensInSupabase(userId, updatedAccounts); return credentials
WriteAccounts(a) ==
  /\ a \in DOMAIN tpc
  /\ tpc[a] = "write"
  /\ UNCHANGED notToken
  /\ tokenStore' = WithRefreshed(emailAccounts[a], a)
  /\ tpc' = [tpc EXCEPT ![a] = "ok"]
  /\ UNCHANGED <<expired, emailAccounts, epcTokens>>

\* Promise.all settles: it rejects as soon as one call has failed (the catch
\* rethrows, the other calls run on), and resolves when every call has returned,
\* after which updateTokensInSupabase(userId, refreshedTokens) writes the list
EnsureSettles ==
  /\ epcTokens = "all"
  /\ UNCHANGED notToken
  /\ IF \E a \in Accounts : tpc[a] = "failed"
       THEN /\ epcTokens' = "raised"
            /\ UNCHANGED tokenStore
       ELSE /\ \A a \in Accounts : tpc[a] \in {"fresh", "ok"}
            /\ tokenStore' = RefreshedTokens(expired)
            /\ epcTokens' = "returned"
  /\ UNCHANGED <<expired, tpc, emailAccounts>>

TokenNext ==
  \/ \E a \in Accounts : OAuthRefresh(a)
  \/ \E a \in Accounts : ReadAccounts(a)
  \/ \E a \in Accounts : WriteAccounts(a)
  \/ EnsureSettles

\* ------------------------------------------------------------ specifications
Init == OrchInit /\ ScrapeIdle /\ BatchIdle /\ SanIdle /\ HandlerIdle /\ DescIdle /\ DelayIdle /\ DriverIdle /\ EnsureIdle /\ GuardIdle /\ UrlIdle /\ RateIdle /\ UploadIdle /\ TokenIdle

Next == OrchNext

\* runJobScraper and createEnhancedScraper(config).scrapeJobsWithRetry
Spec == Init /\ [][Next]_vars

\* the orchestrator at rest, while another component is explored
OrchIdle ==
  /\ mode = "once"
  /\ cfgMaxRetries = OnceMaxRetries
  /\ pc = "off"
  /\ attempt = 0
  /\ ctx = NoCtx
  /\ drv = 1
  /\ owner = <<>>
  /\ live = {}
  /\ nextSid = 1
  /\ err = NoError
  /\ raw = <<>>
  /\ fails = <<>>
  /\ primaryErr = NoError
  /\ orchJobs = <<>>
  /\ fbCtx = NoCtx
  /\ out = [kind |-> "none", err |-> NoError, jobs |-> <<>>]
  /\ slept = 0
  /\ log = <<>>

SpecScrapeInit == ScrapeInit /\ OrchIdle /\ BatchIdle /\ SanIdle /\ HandlerIdle /\ DescIdle /\ DelayIdle /\ DriverIdle /\ EnsureIdle /\ GuardIdle /\ UrlIdle /\ RateIdle /\ UploadIdle /\ TokenIdle

SpecScrapeNext == ScrapeNext

\* CustomLinkedInScraper.scrapeJobs on one page, for every limit and every way
\* the site serves cards
SpecScrape == SpecScrapeInit /\ [][SpecScrapeNext]_vars

SpecBatchInit == BatchInit /\ OrchIdle /\ ScrapeIdle /\ SanIdle /\ HandlerIdle /\ DescIdle /\ DelayIdle /\ DriverIdle /\ EnsureIdle /\ GuardIdle /\ UrlIdle /\ RateIdle /\ UploadIdle /\ TokenIdle

SpecBatchNext == BatchNext

\* batchScrapeJobs over every list of requests and every outcome per request
SpecBatch == SpecBatchInit /\ [][SpecBatchNext]_vars

SpecSanitizeInit == SanInit /\ OrchIdle /\ ScrapeIdle /\ BatchIdle /\ HandlerIdle /\ DescIdle /\ DelayIdle /\ DriverIdle /\ EnsureIdle /\ GuardIdle /\ UrlIdle /\ RateIdle /\ UploadIdle /\ TokenIdle

SpecSanitizeNext == SanNext

\* the validation and sanitization of one scraped list, for every record
SpecSanitize == SpecSanitizeInit /\ [][SpecSanitizeNext]_vars

SpecHandlerInit == HandlerInit /\ OrchIdle /\ ScrapeIdle /\ BatchIdle /\ SanIdle /\ DescIdle /\ DelayIdle /\ DriverIdle /\ EnsureIdle /\ GuardIdle /\ UrlIdle /\ RateIdle /\ UploadIdle /\ TokenIdle

SpecHandlerNext == HandlerNext

\* getScrapedJobsHandler over every snapshot and every scraped list
SpecHandler == SpecHandlerInit /\ [][SpecHandlerNext]_vars

SpecDescInit == DescInit /\ OrchIdle /\ ScrapeIdle /\ BatchIdle /\ SanIdle /\ HandlerIdle /\ DelayIdle /\ DriverIdle /\ EnsureIdle /\ GuardIdle /\ UrlIdle /\ RateIdle /\ UploadIdle /\ TokenIdle

SpecDescNext == DescNext

\* scrapeJobsWithDescriptions over every listing and every outcome per fetch
SpecDesc == SpecDescInit /\ [][SpecDescNext]_vars

SpecDelayInit == DelayInit /\ OrchIdle /\ ScrapeIdle /\ BatchIdle /\ SanIdle /\ HandlerIdle /\ DescIdle /\ DriverIdle /\ EnsureIdle /\ GuardIdle /\ UrlIdle /\ RateIdle /\ UploadIdle /\ TokenIdle

SpecDelayNext == DelayNext

\* calculateRetryDelay over every attempt index and jitter explored
SpecDelay == SpecDelayInit /\ [][SpecDelayNext]_vars

SpecDriverInit == DriverInit /\ OrchIdle /\ ScrapeIdle /\ BatchIdle /\ SanIdle /\ HandlerIdle /\ DescIdle /\ DelayIdle /\ EnsureIdle /\ GuardIdle /\ UrlIdle /\ RateIdle /\ UploadIdle /\ TokenIdle

SpecDriverNext == DriverNext

\* one driver object under every order of initialize(), close() and session ends
SpecDriver == SpecDriverInit /\ [][SpecDriverNext]_vars

SpecEnsureInit == EnsureInit /\ OrchIdle /\ ScrapeIdle /\ BatchIdle /\ SanIdle /\ HandlerIdle /\ DescIdle /\ DelayIdle /\ DriverIdle /\ GuardIdle /\ UrlIdle /\ RateIdle /\ UploadIdle /\ TokenIdle

SpecEnsureNext == EnsureNext

\* the entry of scrapeJobs of both self-healing drivers, under every moment a
\* session can end
SpecEnsure == SpecEnsureInit /\ [][SpecEnsureNext]_vars

SpecGuardInit == GuardInit /\ OrchIdle /\ ScrapeIdle /\ BatchIdle /\ SanIdle /\ HandlerIdle /\ DescIdle /\ DelayIdle /\ DriverIdle /\ EnsureIdle /\ UrlIdle /\ RateIdle /\ UploadIdle /\ TokenIdle

SpecGuardNext == GuardNext

\* initialize() of one AuthenticatedLinkedInScraper under overlapping calls
SpecGuard == SpecGuardInit /\ [][SpecGuardNext]_vars

SpecPagesInit == UrlInit /\ OrchIdle /\ ScrapeIdle /\ BatchIdle /\ SanIdle /\ HandlerIdle /\ DescIdle /\ DelayIdle /\ DriverIdle /\ EnsureIdle /\ GuardIdle /\ RateIdle /\ UploadIdle /\ TokenIdle

SpecPagesNext == UrlNext

\* the page loop of AuthenticatedLinkedInScraper.scrapeJobs for every limit,
\* page size and start page explored and every site behaviour
SpecPages == SpecPagesInit /\ [][SpecPagesNext]_vars

SpecPagingInit ==
  /\ \/ ScrapeInit /\ UrlIdle
     \/ ScrapeIdle /\ UrlInit
  /\ OrchIdle /\ BatchIdle /\ SanIdle /\ HandlerIdle /\ DescIdle /\ DelayIdle
  /\ DriverIdle /\ EnsureIdle /\ GuardIdle /\ RateIdle /\ UploadIdle /\ TokenIdle

SpecPagingNext == ScrapeNext \/ UrlNext

\* one scrape under the pagination strategy of its driver: the scroll loop of
\* CustomLinkedInScraper or the page loop of AuthenticatedLinkedInScraper
SpecPaging == SpecPagingInit /\ [][SpecPagingNext]_vars

SpecRateInit == RateInit /\ GuardIdle /\ OrchIdle /\ ScrapeIdle /\ BatchIdle /\ SanIdle /\ HandlerIdle /\ DescIdle /\ DelayIdle /\ DriverIdle /\ EnsureIdle /\ UrlIdle /\ UploadIdle /\ TokenIdle

SpecRateNext == RateNext

\* description fetches of one EnhancedLinkedInScraper under overlapping calls
SpecRate == SpecRateInit /\ [][SpecRateNext]_vars

SpecUploadInit == UploadInit /\ RateIdle /\ GuardIdle /\ OrchIdle /\ ScrapeIdle /\ BatchIdle /\ SanIdle /\ HandlerIdle /\ DescIdle /\ DelayIdle /\ DriverIdle /\ EnsureIdle /\ UrlIdle /\ TokenIdle

SpecUploadNext == UploadNext

\* two get_and_upload requests handled concurrently
SpecUpload == SpecUploadInit /\ [][SpecUploadNext]_vars

SpecTokensInit == TokenInit /\ UploadIdle /\ RateIdle /\ GuardIdle /\ OrchIdle /\ ScrapeIdle /\ BatchIdle /\ SanIdle /\ HandlerIdle /\ DescIdle /\ DelayIdle /\ DriverIdle /\ EnsureIdle /\ UrlIdle

SpecTokensNext == TokenNext

\* one ensureFreshTokens call with its parallel refreshes
SpecTokens == SpecTokensInit /\ [][SpecTokensNext]_vars

\* =================================================================== claims
\* no two records of the list share an id
DistinctIds(list) ==
  \A i \in 1..Len(list) : \A j \in 1..Len(list) : i # j => list[i].id # list[j].id

\* C1 (as claimed): the list scrapeOnce returns has at most limit records and no
\* two of them share an id, however the extract / load-more steps went.
C1_AtMostLimitDistinctIds ==
  spc = "done" =>
    /\ Len(onceOut.jobs) <= targetLimit
    /\ DistinctIds(onceOut.jobs)

\* every error scrapeJobsWithRetry has caught so far carries a retryable signature
FailedRetryably == \A i \in 1..Len(fails) : RetryableSignature(fails[i])

\* scrapeJobsWithRetry has raised
PrimaryHasRaised == primaryErr # NoError

\* C2: for every k <= maxRetries, when attempts 0..k-1 failed with retryable errors
\* the orchestrator has not raised (it goes on to attempt k), and when attempt k
\* succeeds it returns the validated, sanitized list of that attempt.
C2_RetryThenSucceed ==
  /\ PrimaryHasRaised => ~(FailedRetryably /\ Len(fails) <= maxRetries)
  /\ pc = "orchReturned" =>
       /\ ~PrimaryHasRaised
       /\ Len(fails) = attempt
       /\ attempt <= maxRetries
       /\ orchJobs = ValidateAndSanitize(raw)
       /\ log[Len(log)] = Event("scrape", attempt)
          \/ (Len(log) > 1 /\ log[Len(log) - 1] = Event("scrape", attempt))
          \/ (Len(log) > 2 /\ log[Len(log) - 2] = Event("scrape", attempt))

\* C2 witness: attempts 0 and 1 failed retryably and attempt 2, the last one the
\* budget permits, returned a non-empty list
C2_Witness ==
  /\ pc = "orchReturned"
  /\ Len(fails) = 2
  /\ FailedRetryably
  /\ attempt = maxRetries
  /\ orchJobs # <<>>

\* C3: a non-retryable failure of attempt 0 is raised at once: one scrape, no
\* session re-created by the orchestrator or the driver, no delay slept.
C3_NonRetryableAbortsAtOnce ==
  (Len(fails) >= 1 /\ ~RetryableSignature(fails[1])) =>
    /\ Len(fails) = 1
    /\ attempt = 0
    /\ pc \in {"decide", "orchRaised", "fallbackCreate", "fallbackScrape", "finally", "done"}
    /\ pc # "decide" => primaryErr = fails[1]
    /\ CountEv("scrape") = 1
    /\ drv = 1
    /\ CountEv("reinit") = 0
    /\ CountEv("reinitClose") = 0
    /\ CountEv("recover") = 0
    /\ CountEv("cooldown") = 0
    /\ CountEv("rateSleep") = 0
    /\ CountEv("backoff") = 0

\* C3 witness: attempt 0 failed with a non-retryable error while budget remained,
\* and the orchestrator has raised it
C3_Witness ==
  /\ pc = "orchRaised"
  /\ Len(fails) = 1
  /\ ~RetryableSignature(fails[1])
  /\ maxRetries > 1
  /\ primaryErr = fails[1]

\* C4 (as claimed): when all maxRetries+1 attempts failed with retryable errors,
\* the error raised is the terminal error that names the attempt count.
C4_ExhaustionNamesAttemptCount ==
  (PrimaryHasRaised /\ FailedRetryably /\ Len(fails) = maxRetries + 1) =>
    primaryErr = ExhaustedError(maxRetries)

\* C5 (as claimed): with a configured budget M, scrape is invoked at most M+1 times.
C5_AtMostBudgetPlusOneScrapes == CountEv("scrape") <= cfgMaxRetries + 1

\* C8: the fallback is started at most once and only after the primary scrape
\* raised; its records are what the call returns when it succeeds, and when it
\* fails the call raises the primary scrape's error.
C8_FallbackOnceThenOriginalError ==
  /\ CountEv("fallback") <= 1
  /\ CountEv("fallback") = 1 => (mode = "once" /\ PrimaryHasRaised)
  /\ PrimaryHasRaised => primaryErr = fails[Len(fails)]
  /\ (pc \in {"finally", "done"} /\ CountEv("fallbackOk") = 1) =>
       /\ out.kind = "returned"
       /\ out.jobs = LegacyFallbackJobs(raw)
  /\ (pc \in {"finally", "done"} /\ CountEv("fallback") = 1 /\ CountEv("fallbackOk") = 0) =>
       /\ out.kind = "raised"
       /\ out.err = primaryErr

\* C8 witness: the fallback scrape failed with an error other than the primary's,
\* and the call is over
C8_Witness ==
  /\ pc = "done"
  /\ CountEv("fallbackFailed") = 1
  /\ primaryErr = RateLimitError
  /\ out.kind = "raised"

\* C9 (as claimed): at most one browser session is live at any moment.
C9_AtMostOneLiveSession == Cardinality(live) <= 1
\* ---- C6
\* the request a returned record was scraped for
RequestOf(job) == CHOOSE i \in 1..5 : LocationOf(i) = job.location

\* C6: batchScrapeJobs never raises; once it has returned, every request of
\* the batch was attempted, the list returned is the concatenation, in request
\* order, of the lists of the requests that succeeded, and a request that
\* failed contributed nothing.
C6_BatchConcatenatesSuccesses ==
  /\ bOut.kind # "raised"
  /\ bpc = "done" =>
       /\ bOut.kind = "returned"
       /\ Len(outcomes) = nReq
       /\ bOut.jobs = ConcatOk(outcomes)
       /\ \A i \in 1..Len(bOut.jobs) : outcomes[RequestOf(bOut.jobs[i])].ok
       /\ \A i \in 1..Len(bOut.jobs) : \A j \in i..Len(bOut.jobs) :
            RequestOf(bOut.jobs[i]) <= RequestOf(bOut.jobs[j])

\* a batch returned in which a request failed between two that delivered records
C6_Witness ==
  /\ bpc = "done"
  /\ Len(outcomes) = 3
  /\ outcomes[1].ok /\ outcomes[1].jobs # <<>>
  /\ ~outcomes[2].ok
  /\ outcomes[3].ok /\ outcomes[3].jobs # <<>>
  /\ Len(bOut.jobs) = 2

\* ---- C7
\* C7: when the handler has answered, no record it handed to the upload has a
\* job_id that a record of the persisted snapshot has.
C7_NoUploadedIdInSnapshot ==
  hpc = "done" =>
    \A i \in 1..Len(uploaded) : \A k \in 1..Len(jobsFromDB) :
      uploaded[i].job_id # jobsFromDB[k].job_id

\* ---- C10
\* a string with nothing in it but white space, or nothing at all
Blank(v) == v = Undefined \/ Trim(v) = <<>>

\* validation as the specification words it: non-empty id, and title and
\* company non-empty after trimming
PassesValidation(r) ==
  /\ r.id # Undefined /\ r.id # <<>>
  /\ ~Blank(r.title)
  /\ ~Blank(r.company)

\* the records of the scraped list that pass validation, in order
ValidInputs == SelectSeq(rawIn, PassesValidation)

\* what holds of every field, trimmed or not: every returned record passes
\* validation and has every field non-empty, records that fail validation are
\* dropped and the others kept in order, and a trimmed field that was absent
\* or blank holds the sentinel
ReturnedValidAndFilled ==
  /\ Len(vOut) = Len(ValidInputs)
  /\ \A i \in 1..Len(vOut) :
       /\ PassesValidation(vOut[i])
       /\ vOut[i].id = ValidInputs[i].id
       /\ \A f \in JobFields : vOut[i][f] # Undefined /\ vOut[i][f] # <<>>
       /\ \A f \in TrimmedFields :
            /\ ~Blank(vOut[i][f])
            /\ Blank(ValidInputs[i][f]) => vOut[i][f] = NA

\* C10, link fields set apart: every returned record passes validation and has every
\* canonical string field non-empty; an absent or blank trimmed field, and an
\* absent or empty link field, holds the sentinel "N/A"; records that fail
\* validation are dropped.
C10_ValidatedAndSanitized ==
  vpc = "returned" =>
    /\ ReturnedValidAndFilled
    /\ \A i \in 1..Len(vOut) : \A f \in LinkFields :
         ~Truthy(ValidInputs[i][f]) => vOut[i][f] = NA

\* a list returned from which an invalid record was dropped, and in which the
\* record kept had a title to trim and white space in every other field: its
\* location holds the sentinel, its link the white space
C10_Witness ==
  /\ vpc = "returned"
  /\ Len(rawIn) = 2
  /\ ~PassesValidation(rawIn[1])
  /\ rawIn[2].title = <<" ", "a">>
  /\ rawIn[2].location = <<" ">>
  /\ Len(vOut) = 1
  /\ vOut[1].title = <<"a">>
  /\ vOut[1].location = NA
  /\ vOut[1].link = <<" ">>

\* C10, all fields alike: as above, and every blank field, the link fields included,
\* holds the sentinel.
C10_BlankFieldsBecomeSentinel ==
  vpc = "returned" =>
    /\ ReturnedValidAndFilled
    /\ \A i \in 1..Len(vOut) : \A f \in LinkFields :
         Blank(ValidInputs[i][f]) => vOut[i][f] = NA

\* ---- C11
\* C11: when the driver's scrapeJobs has returned for a request with limit N,
\* the list has at most N records, and every record has an id and a title that
\* are non-empty after trimming.
C11_DriverWithinLimitAndAccepted ==
  sOut.kind = "returned" =>
    /\ Len(sOut.jobs) <= limit
    /\ \A i \in 1..Len(sOut.jobs) :
         ~Blank(sOut.jobs[i].id) /\ ~Blank(sOut.jobs[i].title)

\* ---- C12
\* the steps at which a scrape met a login wall or never saw the result container
StructuralEmptyAt ==
  {i \in 1..Len(log) : log[i].ev \in {"loginWall", "noContainer"}}

C13_OneRecordPerListingRecord ==
  /\ dOut.kind = "raised" => listing = <<>> /\ fetches = <<>>
  /\ dOut.kind = "returned" =>
       /\ Len(dOut.jobs) = Len(listing)
       /\ \A i \in 1..Len(listing) : dOut.jobs[i].id = listing[i].id
       /\ enableDesc =>
            /\ Len(fetches) = Len(listing)
            /\ \A i \in 1..Len(listing) :
                 IF fetches[i] = FetchFailed
                   THEN dOut.jobs[i] = listing[i]
                   ELSE dOut.jobs[i] = [listing[i] EXCEPT !.description = fetches[i]]

\* a call returned in which the fetch for the first record failed and the fetch
\* for the second delivered a description
C13_Witness ==
  /\ dOut.kind = "returned"
  /\ Len(listing) = 2
  /\ listing[1].id # listing[2].id
  /\ fetches = <<FetchFailed, <<"d">>>>
  /\ dOut.jobs[2].description = <<"d">>

\* ---- C14
\* C14: calculateRetryDelay(k) lies in [1000 * 2^k, 1000 * 2^k + 1000] while
\* 1000 * 2^k <= 30000, and in [30000, 31000] for larger k.
C14_DelayWithinRange ==
  rpc = "returned" =>
    IF 1000 * Pow2(rAttempt) <= 30000
      THEN /\ 1000 * Pow2(rAttempt) <= rDelay
           /\ rDelay <= 1000 * Pow2(rAttempt) + 1000
      ELSE /\ 30000 <= rDelay
           /\ rDelay <= 31000

\* the delay computed for the first capped attempt index with the largest jitter
C14_Witness ==
  /\ rpc = "returned"
  /\ rAttempt = 5
  /\ rDelay = 30999

\* ---- C15
\* the last operation on the driver object was close()
JustClosed == kOps # <<>> /\ kOps[Len(kOps)] = "close"

\* C15: close() never raises and leaves the session handle absent; on a driver
\* whose handle was absent (never initialized, already closed, or cleared when
\* the session ended) or named a session that had ended, it closes nothing; and
\* a second close() right after a close() changes nothing.
C15_CloseIsSafeAndIdempotent ==
  JustClosed =>
    /\ ~kRaised
    /\ kContext = NoCtx /\ kBrowser = NoCtx
    /\ (kPrev.context = NoCtx /\ kPrev.browser = NoCtx) => kLive = kPrev.live
    /\ (kPrev.context \notin kPrev.live /\ kPrev.browser \notin kPrev.live) =>
         kLive = kPrev.live
    /\ (Len(kOps) >= 2 /\ kOps[Len(kOps) - 1] = "close") => DriverState = kPrev

\* a driver that was initialized, whose session then ended, and that was closed
\* twice
C15_Witness ==
  /\ kOps = <<"initialize", "ended", "close", "close">>
  /\ kKind = "custom"

\* ---- C16
\* the scraped records in the canonical schema, before de-duplication
Normalized == normalizeJobData(scraped)

\* where an identifier occurs first among the normalized records
FirstPos(id) ==
  CHOOSE k \in 1..Len(Normalized) :
    /\ Normalized[k].job_id = id
    /\ \A m \in 1..(k - 1) : Normalized[m].job_id # id

\* C16: when the handler has answered without the scraper failing, uniqueJobs
\* holds, for every job_id among the scraped records, exactly the first record
\* with that job_id, and these records are in the order in which they were
\* scraped.
C16_FirstOccurrenceWins ==
  (hpc = "done" /\ response # "error") =>
    /\ \A k \in 1..Len(Normalized) :
         \E i \in 1..Len(uniqueJobs) : uniqueJobs[i].job_id = Normalized[k].job_id
    /\ \A i \in 1..Len(uniqueJobs) :
         uniqueJobs[i] = Normalized[FirstPos(uniqueJobs[i].job_id)]
    /\ \A i \in 1..Len(uniqueJobs) : \A j \in (i + 1)..Len(uniqueJobs) :
         FirstPos(uniqueJobs[i].job_id) < FirstPos(uniqueJobs[j].job_id)

\* a run in which posting 1 was scraped twice, under two URL forms, with another
\* posting in between
C16_Witness ==
  /\ hpc = "done"
  /\ Len(scraped) = 3
  /\ scraped[1].id = scraped[3].id
  /\ scraped[1].link # scraped[3].link
  /\ scraped[2].id # scraped[1].id
  /\ Len(uniqueJobs) = 2
  /\ uniqueJobs[1].jobUrl = scraped[1].link

\* ---- C17
\* C17: sanitizing a sanitized record changes nothing: the records returned,
\* sanitized once more, are the records returned, and for every scraped record
\* r, valid or not, sanitizeJobData(sanitizeJobData(r)) = sanitizeJobData(r).
C17_SanitizeIdempotent ==
  /\ vpc = "resanitized" => vAgain = vOut
  /\ \A i \in 1..Len(rawIn) :
       sanitizeJobData(sanitizeJobData(rawIn[i])) = sanitizeJobData(rawIn[i])

\* a record with blanks around its title and white space in its other fields
\* was returned and sanitized again
C17_Witness ==
  /\ vpc = "resanitized"
  /\ Len(rawIn) = 1
  /\ rawIn[1].title = <<" ", "a">>
  /\ rawIn[1].location = <<" ", " ">>
  /\ Len(vAgain) = 1
  /\ vAgain[1].title = <<"a">>
  /\ vAgain[1].location = NA

\* ---- C18
\* the steps at which an attempt called this.scraper.scrapeJobs
ScrapeAt == {i \in 1..Len(log) : log[i].ev = "scrape"}

\* C18: every scrape of an attempt with index > 0 comes after, in this order
\* and with nothing in between, the close of the current session, the cooldown
\* and the initialize() of a new driver object, all of that attempt, and nothing
\* but the end of a session lies between that initialize() and the scrape; the
\* cooldown is 2000 ms; every re-creation made a new driver object; and attempt
\* 0 has no close, cooldown or re-creation.
C18_RetryRecreatesSession ==
  /\ \A i \in ScrapeAt :
       log[i].att > 0 =>
         \E c \in 3..(i - 1) :
           /\ log[c - 2] = Event("reinitClose", log[i].att)
           /\ log[c - 1] = Event("cooldown", log[i].att)
           /\ log[c] = Event("reinit", log[i].att)
           /\ \A k \in (c + 1)..(i - 1) : log[k].ev = "died"
  /\ \A i \in 1..Len(log) :
       log[i].ev \in {"reinitClose", "cooldown", "reinit"} => log[i].att > 0
  /\ pc = "reinitInit" => slept = 2000
  /\ drv = 1 + CountEv("reinit")

\* a call has ended whose second attempt scraped
C18_Witness ==
  /\ pc = "done"
  /\ \E i \in ScrapeAt : log[i].att = 1
  /\ drv = 2

\* ---- C19
\* the last step logged
LastEvent == IF log = <<>> THEN Event("none", 0) ELSE log[Len(log)]

\* C19: right after the backoff between the failed attempt k and attempt k + 1,
\* the delay slept is min(1000 * 2^k, 30000) ms plus at most 1000 ms.
C19_BackoffOfFailedAttempt ==
  (pc = "loop" /\ LastEvent.ev = "backoff") =>
    LET k == attempt - 1
    IN  /\ Min(1000 * Pow2(k), 30000) <= slept
        /\ slept <= Min(1000 * Pow2(k), 30000) + 1000

\* ---- C20
\* the rate-limit signatures, as the specification lists them
RateLimitedSignature(e) == e.msg \cap {"429", "rate limit", "too many requests"} # {}

\* C20: a backoff is directly preceded by the rate-limit cooldown of the attempt
\* that failed exactly when that attempt's failure was rate-limited; the
\* cooldown lies in [5000, 10000] ms; the backoff is the standard one; and every
\* attempt after the first scrapes only after the backoff.
C20_CooldownBeforeBackoff ==
  /\ \A i \in 1..Len(log) :
       log[i].ev = "backoff" =>
         (RateLimitedSignature(fails[log[i].att])
            <=> (i > 1 /\ log[i - 1] = Event("rateSleep", log[i].att - 1)))
  /\ (pc = "decide" /\ RateLimitedSignature(err)) =>
       /\ LastEvent = Event("rateSleep", attempt)
       /\ 5000 <= slept /\ slept <= 10000
  /\ (pc = "loop" /\ LastEvent.ev = "backoff") =>
       /\ BackoffBase(attempt) <= slept
       /\ slept <= BackoffBase(attempt) + 1000
  /\ \A i \in ScrapeAt :
       log[i].att > 0 => \E b \in 1..i : log[b] = Event("backoff", log[i].att)

\* a call has ended in which attempt 0 failed rate-limited and attempt 1 failed
\* otherwise, each followed by a retry
C20_Witness ==
  /\ pc = "done"
  /\ Len(fails) >= 2
  /\ RateLimitedSignature(fails[1])
  /\ ~RateLimitedSignature(fails[2])
  /\ \E i \in 2..Len(log) :
       log[i] = Event("backoff", 1) /\ log[i - 1] = Event("rateSleep", 0)
  /\ \E j \in 2..Len(log) :
       log[j] = Event("backoff", 2) /\ log[j - 1].ev # "rateSleep"


\* ---- C21
\* the catch block of scrapeJobs has just run its forced re-initialization
RecoveryJustRan ==
  /\ pc = "catch"
  /\ \/ LastEvent.ev = "recover"
     \/ /\ Len(log) >= 2
        /\ LastEvent.ev = "launchFailed"
        /\ log[Len(log) - 1].ev = "recover"

\* C21: after a scrape failed with a crash-signature error and the driver ran
\* its forced re-initialization, the error the orchestrator catches is that
\* crash error, and it is retryable while budget remains, also when the
\* re-initialization failed.
C21_CrashErrorReachesOrchestrator ==
  RecoveryJustRan =>
    /\ err = CrashError
    /\ attempt < maxRetries => shouldRetry(err, attempt, maxRetries)


\* ---- C22
\* C22: every newPage() call, of login() and of scrapeJobs, reads a handle that
\* is set and names a live session.
C22_PageOnlyOnReadyHandle ==
  \A i \in 1..Len(eOpens) : eOpens[i].handle # NoCtx /\ eOpens[i].live


\* ---- C23
\* the callers whose initialize() is between the guard and its finally block
InInitialize == {c \in DOMAIN gpc : gpc[c] \in {"close", "launch"}}

\* C23: at most one caller is inside initialize() past the guard, so at most
\* one launch is in progress; the flag is set exactly while a caller is there,
\* so it is cleared after a launch that succeeded and after one that failed;
\* and every call either was returned by the guard or launches.
C23_OneLaunchAtATime ==
  /\ Cardinality(InInitialize) <= 1
  /\ Cardinality({c \in DOMAIN gpc : gpc[c] = "launch"}) <= 1
  /\ isInitializing <=> InInitialize # {}
  /\ gCalls = gSkipped + Len(gDone) + Cardinality(InInitialize)

\* a call was returned by the guard while a launch was in progress, and both a
\* launch that failed and one that succeeded have ended with the flag cleared
C23_Witness ==
  /\ gSkipped >= 1
  /\ \E i, j \in 1..Len(gDone) : gDone[i] = "failed" /\ gDone[j] = "ok"
  /\ ~isInitializing


\* ---- C24
\* the counts the current loadMoreJobs call has read are all the same
NoGrowthSoFar == \A i \in 1..Len(counts) : counts[i] = counts[1]

\* the scrape has returned the records extracted so far
StoppedWithRecordsSoFar ==
  /\ spc \in {"returned", "done"}
  /\ sOut.kind = "returned"
  /\ sOut.jobs = Slice(jobs, targetLimit)

\* C24 (one comparison): once the first count read after a scroll equals the
\* count before, the scrape has stopped with the records extracted so far,
\* after that one scroll.
C24_EndAfterOneScroll ==
  (Len(counts) >= 2 /\ counts[2] = counts[1]) =>
    /\ StoppedWithRecordsSoFar
    /\ Len(counts) = 2

\* C24 (one pass): while the counts of a loadMoreJobs call show no growth the
\* call scrolls on, at most ScrollsPerLoad times; once ScrollsPerLoad counts in
\* a row equal the count before, the scrape has stopped with the records
\* extracted so far, in its first pass after exactly ScrollsPerLoad scrolls and
\* with scrollAttempts still 0; and the loop goes on to another extraction only
\* after a count larger than the count before.
C24_EndAfterOnePass ==
  /\ spc = "scroll" =>
       /\ NoGrowthSoFar
       /\ Len(counts) = scrollI + 1
       /\ scrollI < ScrollsPerLoad
  /\ (Len(counts) = ScrollsPerLoad + 1 /\ NoGrowthSoFar) =>
       /\ StoppedWithRecordsSoFar
       /\ scrollAttempts < MaxScrollAttempts
       /\ scrollAttempts = 0 =>
            /\ scrolls = ScrollsPerLoad
            /\ jobs = extractJobsFromPage(dom)
  /\ (spc \in {"loop", "extract", "loadMore"} /\ counts # <<>>) =>
       /\ counts[Len(counts)] > counts[1]
       /\ scrollAttempts >= 1

\* a scrape whose first loadMoreJobs call read [1, 1, 1, 1, 1, 1] has returned
\* its one record, with a limit it had not reached
C24_Witness ==
  /\ spc = "done"
  /\ counts = <<1, 1, 1, 1, 1, 1>>
  /\ scrollAttempts = 0
  /\ scrolls = 5
  /\ Len(sOut.jobs) = 1
  /\ targetLimit > 1


\* ---- C25
\* the largest iteration ceiling the two strategies name
LargestNamedCeiling ==
  IF MaxSlowScrolls > MaxScrollAttempts THEN MaxSlowScrolls ELSE MaxScrollAttempts

\* the least number of pages of pageSize records that hold uLimit records
PagesFor(lim, size) == CHOOSE n \in 0..lim : n * size >= lim /\ (n = 0 \/ (n - 1) * size < lim)

\* the counters of the scroll loop and of the per-page scroll stay under their
\* ceilings: 20 passes of at most 5 scrolls, 50 scroll steps a page
ScrollCeilingsHold ==
  /\ scrollAttempts <= MaxScrollAttempts
  /\ scrollI < ScrollsPerLoad
  /\ scrolls <= ScrollsPerLoad * MaxScrollAttempts
  /\ spc = "extract" => scrollAttempts < MaxScrollAttempts
  /\ slowScrolls <= MaxSlowScrolls

\* C25 (ceilings that do not depend on the limit): the scroll loop, the
\* per-page scroll and the page loop all stay under a ceiling no larger than
\* the largest one named, whatever the limit.
C25_HardCeilingsWhateverTheLimit ==
  /\ ScrollCeilingsHold
  /\ passes <= LargestNamedCeiling

\* C25 (the page loop capped by the limit): the scroll loop and the per-page
\* scroll stay under their ceilings whatever the site does and whatever the
\* limit, and the page loop begins at most ceil(limit / pageSize) passes,
\* whatever the site does.
C25_LoopsAreCapped ==
  /\ ScrollCeilingsHold
  /\ upc # "off" => passes <= PagesFor(uLimit, pageSize)
  /\ upc # "off" => Len(starts) <= PagesFor(uLimit, pageSize) + 1

\* a URL-offset scrape has used up its pages without reaching its limit, its
\* last per-page scroll having run to its ceiling
C25_Witness ==
  /\ upc = "done"
  /\ uOut.why = "pages"
  /\ passes = PagesFor(uLimit, pageSize)
  /\ passes >= 2
  /\ slowScrolls = MaxSlowScrolls
  /\ Len(uJobs) < uLimit


\* ---- C26
\* C26: every start offset navigated to after the first is the one before plus
\* pageSize; and a scrape stopped by a next-page navigation (or wait) that
\* failed has returned, not raised, exactly the records collected before it.
C26_NextOffsetAndQuietEnd ==
  /\ \A i \in 2..Len(starts) : starts[i] = starts[i - 1] + pageSize
  /\ (upc = "next" /\ starts # <<>>) => currentUrl = starts[Len(starts)]
  /\ uOut.why = "navigation" =>
       /\ uOut.kind = "returned"
       /\ uOut.jobs = uJobs
       /\ Len(uJobs) < uLimit
       /\ passes = Len(starts) - 1

\* a scrape that started at page 2 went to a second page and was stopped by
\* the navigation to a third, with records collected
C26_Witness ==
  /\ upc = "done"
  /\ uOut.why = "navigation"
  /\ startPage = 2
  /\ Len(starts) = 3
  /\ starts[1] = pageSize
  /\ Len(uOut.jobs) >= 2


\* ---- C27
\* C27: the list a multi-page scrape returns holds no id twice (a record whose
\* id an earlier page gave is dropped, so it takes no place under the limit)
\* and at most limit records.
C27_NoIdTwiceAcrossPages ==
  uOut.kind = "returned" =>
    /\ \A i, j \in 1..Len(uOut.jobs) : uOut.jobs[i] = uOut.jobs[j] => i = j
    /\ Len(uOut.jobs) <= uLimit


C29_DelayBetweenAnyTwoRequests ==
  \A i \in 1..(Len(outcomes) - 1) :
    /\ bSlept[i] >= requestDelay
    /\ bSlept[i] <= requestDelay + BatchDelaySpread


\* ---- C30
\* C30: a timeout during an orchestrated scrape is retried while retry budget
\* remains: the orchestrator raises a timeout error only at the last attempt,
\* and an attempt whose wait for the result container timed out with budget
\* left is followed by another attempt, not by a return.
C30_TimeoutIsRetried ==
  /\ primaryErr = PwTimeoutError => attempt >= maxRetries
  /\ \A i \in 1..Len(log) :
       (log[i].ev = "noContainer" /\ log[i].att < maxRetries) =>
         (pc \in {"orchReturned", "finally", "done"} => attempt > log[i].att)


\* ---- C31
\* C31: when the orchestrated run has returned or raised, no session launched
\* during the call is left open: neither one of the primary scraper's driver
\* objects nor the fallback scraper's.
C31_NoSessionLeftOpen == pc = "done" => live = {}


\* ---- C32
\* C32: when a session ends on its own while the handle names another session
\* that goes on running, the handle is left as it is: the 'close' event of a
\* session the driver has replaced never clears the handle of the newer one.
C32_StaleCloseKeepsHandle ==
  [][(/\ log' = Append(log, Event("died", attempt))
      /\ ctx # NoCtx
      /\ ctx \in live') => ctx' = ctx]_vars


\* ---- C33
\* C33: nothing is slept after the failure of the last permitted attempt: no
\* rate-limit cooldown is slept in the attempt with index maxRetries, and no
\* backoff is slept once the attempt index has passed maxRetries.
C33_NoSleepAfterLastAttempt ==
  \A i \in 1..Len(log) :
    /\ log[i].ev = "rateSleep" => log[i].att < maxRetries
    /\ log[i].ev = "backoff" => log[i].att <= maxRetries


\* ---- C34
\* the places in the log where the initialize() of a retry failed
ReinitFailedAt ==
  {i \in 2..Len(log) : log[i].ev = "launchFailed" /\ log[i - 1].ev = "reinit"}

\* C34: a re-initialization that fails before a retry attempt is handled as a
\* failed scrape of that attempt: no scrape is invoked in that attempt; the
\* error goes through the catch and is classified by shouldRetry, so the attempt
\* index moves on when budget is left and the launch error is raised when none
\* is; and there are at most maxRetries re-creations and maxRetries + 1 scrapes.
C34_ReinitFailureConsumesAttempt ==
  /\ \A i \in ReinitFailedAt :
       /\ \A j \in (i + 1)..Len(log) : log[j].ev = "scrape" => log[j].att > log[i].att
       /\ attempt >= log[i].att
       /\ attempt = log[i].att =>
            /\ pc \in {"catch", "decide", "orchRaised", "fallbackCreate",
                       "fallbackScrape", "finally", "done"}
            /\ pc \notin {"catch", "decide"} =>
                 /\ primaryErr = LaunchError
                 /\ ~shouldRetry(LaunchError, attempt, maxRetries)
       /\ pc \notin {"catch", "decide"} \/ attempt > log[i].att => LaunchError \in {fails[k] : k \in 1..Len(fails)}
  /\ CountEv("reinit") <= maxRetries
  /\ CountEv("scrape") <= maxRetries + 1
  /\ CountEv("reinit") + CountEv("scrape") <= 2 * maxRetries + 1

\* the re-initialization before the second attempt failed, the third attempt
\* scraped and the call has ended
C34_Witness ==
  /\ pc = "done"
  /\ \E i \in ReinitFailedAt : log[i].att = 1
  /\ \E j \in 1..Len(log) : log[j] = Event("scrape", 2)
  /\ \A j \in 1..Len(log) : log[j] # Event("scrape", 1)


\* ---- C35
\* C35: once a catch inside the pagination loop has handled an error without a
\* crash signature, from extraction or from load-more, scrapeJobs has stopped
\* paginating and returned the records accumulated so far, cut at the limit; an
\* error that left the loop has a crash signature.
C35_NonCrashErrorEndsQuietly ==
  /\ (caught.at # "none" /\ ~isCrashError(caught.err)) =>
       /\ spc \in {"returned", "done"}
       /\ sOut.kind = "returned"
       /\ sOut.jobs = Slice(jobs, targetLimit)
       /\ Len(sOut.jobs) <= targetLimit
  /\ (caught.at # "none" /\ sOut.kind = "raised") =>
       /\ isCrashError(caught.err)
       /\ sOut.err = caught.err

\* extraction raised an error without a crash signature on a later pass of the
\* loop and the scrape returned the records of the passes before
C35_Witness ==
  /\ caught = [at |-> "extract", err |-> OtherError]
  /\ scrollAttempts >= 1
  /\ sOut.kind = "returned"
  /\ sOut.jobs # <<>>


\* ---- C36
\* the identifiers in a list of records
IdsOf(list) == {list[k].job_id : k \in 1..Len(list)}

\* C36: the identifiers one of two concurrent get_and_upload requests uploaded
\* are disjoint from those the other one uploaded.
C36_UploadsAreDisjoint ==
  \A r1, r2 \in DOMAIN qUploaded :
    r1 # r2 => IdsOf(qUploaded[r1]) \cap IdsOf(qUploaded[r2]) = {}


\* ---- C37
\* every refresh has returned or failed and ensureFreshTokens has ended
AllRefreshesFinished ==
  /\ epcTokens \in {"returned", "raised"}
  /\ \A a \in DOMAIN tpc : tpc[a] \in {"fresh", "ok", "failed"}

\* C37: once every refresh has finished and ensureFreshTokens has ended, the
\* store holds the refreshed token of every account whose refresh succeeded,
\* also when another refresh failed.
C37_RefreshedTokensAreStored ==
  AllRefreshesFinished =>
    \A a \in DOMAIN tpc : tpc[a] = "ok" => tokenStore[a] = 1

====
